---- MODULE Spec2Model ----
(***************************************************************************)
(* tauri-test-cli: the driver supervisor (src/driver.ts), the wrapper      *)
(* shell that ties the bridge's life to the control process, the HTTP      *)
(* server front-end (server.ts) and the batch runner (cli.ts).             *)
(*                                                                         *)
(* One control process, event-driven: every action below is one run of    *)
(* synchronous code between two suspension points (an await, a timer, a    *)
(* network round trip), or one step of a process the operating system      *)
(* schedules beside it (the wrapper shell).                                *)
(***************************************************************************)
EXTENDS Integers, Sequences, FiniteSets, TLC

\* ---------------------------------------------------------------- bounds
MaxSpawn == 2       \* bridge launches per control process
MaxCalls == 3       \* connect/disconnect calls a caller may have issued
MaxSessions == 2    \* sessions the bridge is asked to open
MaxReqs == 2        \* HTTP requests the server receives
MaxSignals == 1     \* SIGINT/SIGTERM deliveries
MaxBatch == 3       \* commands in one batch
MaxSettle == 3      \* settleTime of waitForDomStable, in ticks of 10 ms
MaxTimeout == 8     \* timeout of waitForDomStable, in ticks of 10 ms
MaxClock == 10      \* how long the page is watched, in ticks of 10 ms
MaxWait == 4        \* timeout of waitForInteractive, in ticks
MaxProcs == 4       \* processes in the tree handed to killProcessTree

Gens == 1..MaxSpawn
CallIds == 1..MaxCalls
ReqIds == 1..MaxReqs
NULL == 0           \* the null handle (driverProcess = null, browser = null)
NONE == -1          \* no timer / not yet / no exit status

VARIABLES
  control,                \* the control process: "alive" | "exited" | "killed"
  driverProcess,          \* driver.ts:6   NULL or the generation of the spawned wrapper
  browser,                \* driver.ts:7   NULL or the session handle
  exitHandlerRegistered,  \* driver.ts:8
  exitHooks,              \* number of process.on("exit", forceKillDriver) registrations
  shellPc,                \* per generation, where the wrapper shell is in its script
  procs,                  \* per generation, the live processes of the wrapper's group
  sessions,               \* sessions open at the bridge
  nSessions,              \* sessions ever opened (the next id)
  calls,                  \* the connect()/disconnect() calls and where each is suspended
  srvPc,                  \* where startServer is: "off" | "start" | "connecting" | "keepalive" | "running"
  serverInstance,         \* server.ts:47  "null" | "listening" | "closed"
  isShuttingDown,         \* server.ts:48
  shutCall,               \* the disconnect() call shutdown is awaiting (NULL: none)
  reqs,                   \* the HTTP requests and where each handler is suspended
  signals,                \* termination signals delivered so far
  readyLines,             \* ready lines written to stdout
  shutdownRuns,           \* times the shutdown sequence was started
  closeCalls,             \* times the listener was closed
  exits,                  \* times process.exit was reached
  stopClient,             \* result of the last client-side stopServer()
  hx,                     \* the command handler being executed, and where it is suspended
  bpc,                    \* where the CLI's main is
  globalAutoWait,         \* cli.ts: const autoWait = !options["no-auto-wait"]
  bat,                    \* the batch: the commands parsed from stdin
  bi,                     \* executeBatch: the loop index i
  results,                \* executeBatch: results
  executed,               \* indices of the commands handed to executeCommand, in order
  dIn,                    \* a dispatch under comparison: command, front-end and flags, global autoWait, session, failing operations
  dOut,                   \* what each front-end's executeCommand did with it
  shot,                   \* one screenshot() call: its options, where it is, data, method, result
  dom,                    \* one waitForDomStable() call inside the page: timers, observer, clock
  iw,                     \* one waitForInteractive() call: its two waits and the clock
  kt,                     \* one killProcessTree() call: the tree, the signals sent
  pl,                     \* one waitForPageLoad() call: the clock, the page, where the loop is
  snap,                   \* one snapshot() of a document: the DOM, the tree built, the listing
  wf,                     \* one waitFor() call: its options, the clock, the element, the result
  xv,                     \* utils.ts:201-202  xvfbProcess, xvfbDisplay and the Xvfb processes spawned
  ev                      \* one evaluate() call: the script, its executions in the page, the result

handleVars == <<driverProcess, browser, exitHandlerRegistered, exitHooks>>
osVars == <<shellPc, procs>>
bridgeVars == <<sessions, nSessions>>
supVars == <<control, handleVars, osVars, bridgeVars, calls>>
srvVars == <<srvPc, serverInstance, isShuttingDown, shutCall, reqs, signals,
             readyLines, shutdownRuns, closeCalls, exits, stopClient>>
cliVars == <<hx, bpc, globalAutoWait, bat, bi, results, executed>>
dispVars == <<dIn, dOut>>
unitVars == <<dispVars, shot, dom, iw, kt>>
envVars == <<xv, ev>>
pageVars == <<pl, snap, wf, envVars>>
auxVars == <<unitVars, pageVars>>
nonSup == <<srvVars, cliVars, auxVars>>

vars == <<supVars, nonSup>>

\* ---------------------------------------------------------------- processes

\* The handle's pid: undefined (0) when the spawn itself failed.
Pid(g) == IF g = NULL \/ shellPc[g] = "spawnerr" THEN 0 ELSE g

LiveBridges == {g \in Gens : "bridge" \in procs[g]}

\* getDescendantPids + killProcessTree: every live process below the root is
\* signalled (SIGKILL, children first), then the root; nothing of the tree is left.
KillTree(group) == {}

\* A wrapper without the EXIT trap: the shell ends and leaves its group running.
TrapKill_NoTrap(group) == group \ {"sh"}

\* The EXIT trap of the wrapper shell, `kill 0`: signals the whole process group.
TrapKill(group) == {}

\* The sessions that survive when generation g's group goes from `before` to `after`:
\* a session lives inside its bridge.
SessionsLeft(S, before, after) ==
  IF "bridge" \in before /\ "bridge" \notin after THEN {} ELSE S

\* The shell script of startDriver:
\*   "<bridge>" & PID=$!; trap "kill 0 2>/dev/null" EXIT; read; exit
ShellLaunch(g) ==
  /\ shellPc[g] = "launch"
  /\ shellPc' = [shellPc EXCEPT ![g] = "trap"]
  /\ procs' = [procs EXCEPT ![g] = @ \cup {"bridge"}]
  /\ UNCHANGED <<control, handleVars, bridgeVars, calls, nonSup>>

ShellTrap(g) ==
  /\ shellPc[g] = "trap"
  /\ shellPc' = [shellPc EXCEPT ![g] = "read"]
  /\ UNCHANGED <<control, handleVars, procs, bridgeVars, calls, nonSup>>

\* `read` blocks on stdin; the control process never writes to the pipe and holds
\* its only write end, so read returns (end-of-stream) exactly when it is dead.
StdinClosed == control # "alive"

ShellReadEof(g) ==
  /\ shellPc[g] = "read"
  /\ StdinClosed
  /\ shellPc' = [shellPc EXCEPT ![g] = "exit"]
  /\ UNCHANGED <<control, handleVars, procs, bridgeVars, calls, nonSup>>

\* `exit`: the EXIT trap runs and signals the group, the shell included.
ShellExit(g) ==
  /\ shellPc[g] = "exit"
  /\ shellPc' = [shellPc EXCEPT ![g] = "gone"]
  /\ procs' = [procs EXCEPT ![g] = TrapKill(@)]
  /\ sessions' = SessionsLeft(sessions, procs[g], TrapKill(procs[g]))
  /\ UNCHANGED <<control, handleVars, nSessions, calls, nonSup>>

\* ---------------------------------------------------------------- supervisor

\* stopDriver / forceKillDriver (same body): kill the tree of the handle's pid
\* and clear the handle; nothing happens when there is no handle or no pid.
\* S is the set of open sessions just before.
StopDriver(S) ==
  IF Pid(driverProcess) # 0
  THEN /\ procs' = [procs EXCEPT ![driverProcess] = KillTree(@)]
       /\ shellPc' = [shellPc EXCEPT ![driverProcess] =
                        IF "sh" \in KillTree(procs[driverProcess]) THEN @ ELSE "gone"]
       /\ sessions' = SessionsLeft(S, procs[driverProcess], KillTree(procs[driverProcess]))
       /\ driverProcess' = NULL
  ELSE /\ UNCHANGED <<procs, shellPc, driverProcess>>
       /\ sessions' = S

\* The process ends through its own exit path (process.exit, or the event loop
\* running dry): the "exit" hooks run, then the process is gone.
ProcessExit ==
  /\ control' = "exited"
  /\ IF exitHooks > 0 THEN StopDriver(sessions)
     ELSE UNCHANGED <<procs, shellPc, driverProcess, sessions>>

DRIVER_PORT == 4444

\* The ports killStaleDriver looks at: [DRIVER_PORT, DRIVER_PORT + 1].
StalePorts == {DRIVER_PORT, DRIVER_PORT + 1}

\* killStaleDriver (driver.ts:68-88): of the ports found with a listener left
\* over from an earlier run (`lsof -ti:port`), those whose listeners are killed,
\* each with its tree.
KillStaleDriver(found) == found \cap StalePorts

\* A registration that does not look at the flag.
RegisterExitHook_Always(registered, hooks) == hooks + 1

\* startDriver's registration of the exit hook (driver.ts:114-118): the number
\* of hooks registered after it, given the flag and the number before.
RegisterExitHook(registered, hooks) == IF registered THEN hooks ELSE hooks + 1

\* A call of connect()/disconnect(). skipped: startDriver returned at its first
\* line (`if (driverProcess) return`); ready: the bridge had been reported ready
\* when startDriver was entered; cleared: killStaleDriver had killed the
\* listeners of every port found with one when the wrapper was spawned.
IdleCall == [op |-> "none", pc |-> "idle", ret |-> NULL, target |-> NULL, idle |-> FALSE,
             skipped |-> FALSE, ready |-> FALSE, cleared |-> FALSE]

\* The bridge is Ready: the startDriver call that launched the current handle
\* has resolved (marker seen or fallback timer fired).
BridgeReady ==
  /\ driverProcess # NULL
  /\ shellPc[driverProcess] # "spawnerr"
  /\ \E d \in CallIds : /\ calls[d].op = "connect"
                        /\ calls[d].target = driverProcess
                        /\ calls[d].pc # "starting"

FreeGen == IF \E g \in Gens : shellPc[g] = "none"
           THEN CHOOSE g \in Gens : shellPc[g] = "none" /\ \A h \in Gens : h < g => shellPc[h] # "none"
           ELSE NULL

\* connect(), up to its first suspension (driver.ts:190-195, startDriver 93-118):
\* startDriver returns at once when there is a handle; otherwise it clears the
\* stale listeners (killStaleDriver), spawns the wrapper and registers the exit hook.
InvokeConnect(c) ==
  /\ calls[c].pc = "idle"
  /\ IF browser # NULL
     THEN /\ calls' = [calls EXCEPT ![c] = [IdleCall EXCEPT !.op = "connect", !.pc = "done", !.ret = browser]]
          /\ UNCHANGED <<handleVars, osVars>>
     ELSE IF driverProcess # NULL
     THEN /\ calls' = [calls EXCEPT ![c] = [IdleCall EXCEPT !.op = "connect", !.pc = "started",
                                              !.skipped = TRUE, !.ready = BridgeReady]]
          /\ UNCHANGED <<handleVars, osVars>>
     ELSE /\ FreeGen # NULL
          /\ \E ok \in BOOLEAN :
               /\ shellPc' = [shellPc EXCEPT ![FreeGen] = IF ok THEN "launch" ELSE "spawnerr"]
               /\ procs' = [procs EXCEPT ![FreeGen] = IF ok THEN {"sh"} ELSE {}]
          /\ driverProcess' = FreeGen
          /\ exitHandlerRegistered' = TRUE
          /\ exitHooks' = RegisterExitHook(exitHandlerRegistered, exitHooks)
          /\ \E found \in SUBSET StalePorts :
               calls' = [calls EXCEPT ![c] = [IdleCall EXCEPT !.op = "connect", !.pc = "starting",
                                               !.target = FreeGen,
                                               !.cleared = (KillStaleDriver(found) = found)]]
          /\ UNCHANGED browser
  /\ UNCHANGED bridgeVars

\* The promise of startDriver settles: rejected by the child's "error" event,
\* resolved by the "Listening" marker or by the 1000 ms fallback timer.
StartDriverSettle(c) ==
  /\ control = "alive"
  /\ calls[c].pc = "starting"
  /\ calls' = [calls EXCEPT ![c].pc =
                 IF shellPc[calls[c].target] = "spawnerr" THEN "failed" ELSE "started"]
  /\ UNCHANGED <<control, handleVars, osVars, bridgeVars, nonSup>>

\* connect resumes after startDriver and sends the new-session request (remote()).
RemoteCall(c) ==
  /\ control = "alive"
  /\ calls[c].pc = "started"
  /\ calls' = [calls EXCEPT ![c].pc = "remote"]
  /\ UNCHANGED <<control, handleVars, osVars, bridgeVars, nonSup>>

\* The bridge opens the session (and with it the application); connect resumes
\* and stores the handle: browser = await remote(...).
RemoteResolve(c) ==
  /\ control = "alive"
  /\ calls[c].pc = "remote"
  /\ LiveBridges # {}
  /\ nSessions < MaxSessions
  /\ nSessions' = nSessions + 1
  /\ sessions' = sessions \cup {nSessions + 1}
  /\ browser' = nSessions + 1
  /\ procs' = [g \in Gens |-> IF g \in LiveBridges THEN procs[g] \cup {"app"} ELSE procs[g]]
  /\ calls' = [calls EXCEPT ![c].pc = "pageload"]
  /\ UNCHANGED <<control, driverProcess, exitHandlerRegistered, exitHooks, shellPc, nonSup>>

\* remote() rejects (no bridge listening, session refused): connect throws.
RemoteReject(c) ==
  /\ control = "alive"
  /\ calls[c].pc = "remote"
  /\ calls' = [calls EXCEPT ![c].pc = "failed"]
  /\ UNCHANGED <<control, handleVars, osVars, bridgeVars, nonSup>>

\* waitForPageLoad returns (ready, or waitTimeout passed): `return browser`
\* returns the module's handle as it is now.
PageLoadDone(c) ==
  /\ control = "alive"
  /\ calls[c].pc = "pageload"
  /\ calls' = [calls EXCEPT ![c].pc = "done", ![c].ret = browser]
  /\ UNCHANGED <<control, handleVars, osVars, bridgeVars, nonSup>>

\* disconnect(), up to its first suspension (driver.ts:223-229).
InvokeDisconnect(c) ==
  /\ calls[c].pc = "idle"
  /\ IF browser # NULL
     THEN /\ calls' = [calls EXCEPT ![c] = [IdleCall EXCEPT !.op = "disconnect", !.pc = "deleting", !.target = browser]]
          /\ UNCHANGED <<handleVars, osVars, bridgeVars>>
     ELSE /\ StopDriver(sessions)
          /\ calls' = [calls EXCEPT ![c] = [IdleCall EXCEPT !.op = "disconnect", !.pc = "done",
                                              !.idle = (driverProcess' = NULL)]]
          /\ UNCHANGED <<browser, exitHandlerRegistered, exitHooks, nSessions>>

\* deleteSession succeeded: browser = null; stopDriver().
DeleteResolve(c) ==
  /\ control = "alive"
  /\ calls[c].pc = "deleting"
  /\ calls[c].target \in sessions
  /\ browser' = NULL
  /\ StopDriver(sessions \ {calls[c].target})
  /\ calls' = [calls EXCEPT ![c].pc = "done", ![c].idle = (driverProcess' = NULL)]
  /\ UNCHANGED <<control, exitHandlerRegistered, exitHooks, nSessions, nonSup>>

\* What disconnect does when deleteSession rejects: the rejection leaves the
\* function at the await (there is no try around it).
DisconnectOnDeleteError == "throw"

\* deleteSession rejected (bridge gone, session unknown, transport error).
DeleteReject(c) ==
  /\ control = "alive"
  /\ calls[c].pc = "deleting"
  /\ IF DisconnectOnDeleteError = "throw"
     THEN /\ calls' = [calls EXCEPT ![c].pc = "failed",
                                    ![c].idle = (browser = NULL /\ driverProcess = NULL)]
          /\ UNCHANGED <<handleVars, osVars, bridgeVars>>
     ELSE /\ browser' = NULL
          /\ StopDriver(sessions)
          /\ calls' = [calls EXCEPT ![c].pc = "done", ![c].idle = (driverProcess' = NULL)]
          /\ UNCHANGED <<exitHandlerRegistered, exitHooks, nSessions>>
  /\ UNCHANGED <<control, nonSup>>

\* ---------------------------------------------------------------- a free caller

NextCall == IF \E c \in CallIds : calls[c].pc = "idle"
            THEN CHOOSE c \in CallIds : calls[c].pc = "idle" /\ \A d \in CallIds : d < c => calls[d].pc # "idle"
            ELSE NULL

CallConnect ==
  /\ control = "alive"
  /\ NextCall # NULL
  /\ InvokeConnect(NextCall)
  /\ UNCHANGED <<control, nonSup>>

CallDisconnect ==
  /\ control = "alive"
  /\ NextCall # NULL
  /\ InvokeDisconnect(NextCall)
  /\ UNCHANGED <<control, nonSup>>

\* The control process ends by its own exit path: the exit hooks run.
ControlExit ==
  /\ control = "alive"
  /\ ProcessExit
  /\ UNCHANGED <<browser, exitHandlerRegistered, exitHooks, nSessions, calls, nonSup>>

\* The control process is killed (SIGKILL): none of its code runs.
ControlKilled ==
  /\ control = "alive"
  /\ control' = "killed"
  /\ UNCHANGED <<handleVars, osVars, bridgeVars, calls, nonSup>>

InitSupervisor ==
  /\ control = "alive"
  /\ driverProcess = NULL
  /\ browser = NULL
  /\ exitHandlerRegistered = FALSE
  /\ exitHooks = 0
  /\ shellPc = [g \in Gens |-> "none"]
  /\ procs = [g \in Gens |-> {}]
  /\ sessions = {}
  /\ nSessions = 0
  /\ calls = [c \in CallIds |-> IdleCall]

ShellStep ==
  \E g \in Gens : ShellLaunch(g) \/ ShellTrap(g) \/ ShellReadEof(g) \/ ShellExit(g)

CallStep ==
  \E c \in CallIds :
    \/ StartDriverSettle(c) \/ RemoteCall(c) \/ RemoteResolve(c) \/ RemoteReject(c)
    \/ PageLoadDone(c) \/ DeleteResolve(c) \/ DeleteReject(c)

\* ---------------------------------------------------------------- commands

Handlers == {"screenshot", "snapshot", "click", "type", "wait", "eval"}

\* A command as it arrives (JSON): each optional field is absent, empty ("" is
\* falsy in `!cmd.selector`) or set; autoWait is unset, on or off.
Cmd(name, sel, txt, scr, aw) ==
  [cmd |-> name, selector |-> sel, text |-> txt, script |-> scr, autoWait |-> aw]

NoCmd == Cmd("", "absent", "absent", "absent", "unset")

Falsy(f) == f # "set"

\* A server switch whose click case does not look at the selector.
ServerRoute_NoCheck(c) ==
  IF c.cmd = "click" THEN [k |-> "handler", v |-> "click"]
  ELSE [k |-> "error", v |-> "Unknown command"]

\* The switch of the server's executeCommand: which handler runs, or which error
\* is thrown before any handler is called.
ServerRoute(c) ==
  CASE c.cmd = "screenshot" -> [k |-> "handler", v |-> "screenshot"]
    [] c.cmd = "snapshot" -> [k |-> "handler", v |-> "snapshot"]
    [] c.cmd = "click" -> IF Falsy(c.selector)
                          THEN [k |-> "error", v |-> "click requires a selector"]
                          ELSE [k |-> "handler", v |-> "click"]
    [] c.cmd = "type" -> IF Falsy(c.selector) \/ c.text = "absent"
                         THEN [k |-> "error", v |-> "type requires selector and text"]
                         ELSE [k |-> "handler", v |-> "type"]
    [] c.cmd = "wait" -> IF Falsy(c.selector)
                         THEN [k |-> "error", v |-> "wait requires a selector"]
                         ELSE [k |-> "handler", v |-> "wait"]
    [] c.cmd = "eval" -> IF Falsy(c.script)
                         THEN [k |-> "error", v |-> "eval requires a script"]
                         ELSE [k |-> "handler", v |-> "eval"]
    [] c.cmd = "sleep" -> [k |-> "sleep", v |-> "sleep"]
    [] c.cmd = "status" -> [k |-> "status", v |-> "status"]
    [] OTHER -> [k |-> "error", v |-> "Unknown command"]

\* ---------------------------------------------------------------- server

\* The commands the modelled clients send.
SrvCmds == {Cmd("click", "set", "absent", "absent", "unset"),
            Cmd("click", "absent", "absent", "absent", "unset"),
            Cmd("sleep", "absent", "absent", "absent", "unset"),
            Cmd("status", "absent", "absent", "absent", "unset"),
            Cmd("bogus", "absent", "absent", "absent", "unset")}

\* The bodies of POST requests: not JSON, JSON without cmd, the JSON value null,
\* or a command.
Body(t, c) == [t |-> t, c |-> c]
SrvBodies == {Body("malformed", NoCmd), Body("nocmd", NoCmd), Body("null", NoCmd)}
             \cup {Body("cmd", c) : c \in SrvCmds}

ReqKinds == {"options", "status", "stop", "post", "other"}

NewReq == [kind |-> "none", body |-> Body("none", NoCmd), pc |-> "new", status |-> 0,
           shape |-> "none", err |-> "none", touched |-> FALSE, seq |-> FALSE,
           noop |-> FALSE]

\* Every failure answered as a success would be.
ErrorStatus_Ok(where) == 200

\* The status of a failure response: 400 for a body that cannot be used, 500 for
\* whatever the command threw (server.ts:204, 209, 217).
ErrorStatus(where) == IF where = "body" THEN 400 ELSE 500

\* sendJson(res, status, data), the last thing a handler does.
Respond(rq, status, shape, err) ==
  [rq EXCEPT !.pc = "done", !.status = status, !.shape = shape, !.err = err,
             !.touched = FALSE]

Answered(r) == reqs[r].status # 0

NextReq == IF \E r \in ReqIds : reqs[r].pc = "new"
           THEN CHOOSE r \in ReqIds : reqs[r].pc = "new" /\ \A q \in ReqIds : q < r => reqs[q].pc # "new"
           ELSE NULL

\* stopServer(port) of the CLI, by what fetch did.
StopServer(outcome) ==
  CASE outcome = "ok" -> [outcome |-> outcome, success |-> TRUE, message |-> "Server stopped"]
    [] outcome = "notok" -> [outcome |-> outcome, success |-> FALSE, message |-> "Server returned status"]
    [] outcome = "refused" -> [outcome |-> outcome, success |-> TRUE, message |-> "Server not running"]
    [] OTHER -> [outcome |-> outcome, success |-> FALSE, message |-> "error"]

NoStop == [outcome |-> "none", success |-> FALSE, message |-> ""]

\* shutdown without its re-entry check.
ShutdownGuard_Off(flag) == FALSE

\* `if (isShuttingDown) return;`
ShutdownGuard(flag) == flag

\* shutdown(), up to its await: set the flag, close the listener, call disconnect().
Shutdown ==
  IF ShutdownGuard(isShuttingDown)
  THEN UNCHANGED <<isShuttingDown, shutdownRuns, closeCalls, serverInstance, shutCall,
                   handleVars, osVars, bridgeVars, calls>>
  ELSE /\ NextCall # NULL
       /\ isShuttingDown' = TRUE
       /\ shutdownRuns' = shutdownRuns + 1
       /\ serverInstance' = IF serverInstance = "null" THEN "null" ELSE "closed"
       /\ closeCalls' = IF serverInstance = "null" THEN closeCalls ELSE closeCalls + 1
       /\ shutCall' = NextCall
       /\ InvokeDisconnect(NextCall)

\* shutdown without the try around disconnect: a rejection ends it before exit.
ShutdownProceeds_NoCatch(pc) == pc = "done"

\* try { await disconnect() } catch {}: shutdown goes on however disconnect ended.
ShutdownProceeds(pc) == pc \in {"done", "failed"}

\* ... process.exit(0)
ShutdownExit ==
  /\ UNCHANGED <<cliVars, auxVars>>
  /\ control = "alive"
  /\ shutCall # NULL
  /\ ShutdownProceeds(calls[shutCall].pc)
  /\ ProcessExit
  /\ exits' = exits + 1
  /\ UNCHANGED <<browser, exitHandlerRegistered, exitHooks, nSessions, calls>>
  /\ UNCHANGED <<srvPc, serverInstance, isShuttingDown, shutCall, reqs, signals,
                 readyLines, shutdownRuns, closeCalls, stopClient>>

\* startServer: register the signal handlers, then `await connect(...)`.
StartServer ==
  /\ UNCHANGED <<cliVars, auxVars>>
  /\ control = "alive"
  /\ srvPc = "start"
  /\ srvPc' = "connecting"
  /\ InvokeConnect(1)
  /\ UNCHANGED <<control, serverInstance, isShuttingDown, shutCall, reqs, signals,
                 readyLines, shutdownRuns, closeCalls, exits, stopClient>>

\* connect returned: `await injectKeepAlive()` (its errors are caught inside).
ConnectReturned ==
  /\ UNCHANGED <<cliVars, auxVars>>
  /\ control = "alive"
  /\ srvPc = "connecting"
  /\ calls[1].pc = "done"
  /\ srvPc' = "keepalive"
  /\ UNCHANGED <<supVars, serverInstance, isShuttingDown, shutCall, reqs, signals,
                 readyLines, shutdownRuns, closeCalls, exits, stopClient>>

\* connect threw: startServer throws, main prints the error and process.exit(1).
ConnectFailed ==
  /\ UNCHANGED <<cliVars, auxVars>>
  /\ control = "alive"
  /\ srvPc = "connecting"
  /\ calls[1].pc = "failed"
  /\ srvPc' = "failed"
  /\ ProcessExit
  /\ exits' = exits + 1
  /\ UNCHANGED <<browser, exitHandlerRegistered, exitHooks, nSessions, calls>>
  /\ UNCHANGED <<serverInstance, isShuttingDown, shutCall, reqs, signals,
                 readyLines, shutdownRuns, closeCalls, stopClient>>

\* A server that prints the ready line whether or not the listener bound.
ReadyLine_Always(bound) == 1

\* The ready lines a listen() prints: the line is written in the callback listen
\* calls once the listener is bound, and nowhere else.
ReadyLine(bound) == IF bound THEN 1 ELSE 0

\* createServer + listen: the listener binds and the listen callback prints the
\* ready line, or the bind fails and the unhandled "error" event ends the process.
KeepAliveDone ==
  /\ UNCHANGED <<cliVars, auxVars>>
  /\ control = "alive"
  /\ srvPc = "keepalive"
  /\ \E bound \in BOOLEAN :
       /\ readyLines' = readyLines + ReadyLine(bound)
       /\ IF bound
          THEN /\ srvPc' = "running"
               /\ serverInstance' = "listening"
               /\ UNCHANGED <<supVars, exits>>
          ELSE /\ srvPc' = "failed"
               /\ ProcessExit
               /\ exits' = exits + 1
               /\ UNCHANGED <<browser, exitHandlerRegistered, exitHooks, nSessions, calls,
                              serverInstance>>
  /\ UNCHANGED <<isShuttingDown, shutCall, reqs, signals, shutdownRuns, closeCalls,
                 stopClient>>

\* SIGINT or SIGTERM: the handler registered by startServer is shutdown.
Signal ==
  /\ UNCHANGED <<cliVars, auxVars>>
  /\ control = "alive"
  /\ srvPc \notin {"off", "start"}
  /\ signals < MaxSignals
  /\ signals' = signals + 1
  /\ Shutdown
  /\ UNCHANGED <<control, srvPc, reqs, readyLines, exits, stopClient>>

\* A request arrives and handleRequest runs up to its first await. New
\* connections need the open listener; a connection kept alive still delivers
\* requests after close().
Arrive(r, kind, body) ==
  /\ UNCHANGED <<cliVars, auxVars>>
  /\ control = "alive"
  /\ serverInstance # "null"
  /\ r = NextReq
  /\ LET rq == [NewReq EXCEPT !.kind = kind, !.seq = \A q \in ReqIds : q < r => Answered(q)]
     IN CASE kind = "options" ->
               /\ reqs' = [reqs EXCEPT ![r] = Respond(rq, 204, "empty", "none")]
               /\ UNCHANGED <<supVars, isShuttingDown, shutdownRuns, closeCalls,
                              serverInstance, shutCall, stopClient>>
          [] kind = "status" ->
               /\ reqs' = [reqs EXCEPT ![r] = Respond(rq, 200, "status", "none")]
               /\ UNCHANGED <<supVars, isShuttingDown, shutdownRuns, closeCalls,
                              serverInstance, shutCall, stopClient>>
          [] kind = "stop" ->
               /\ reqs' = [reqs EXCEPT ![r] =
                             [Respond(rq, 200, "stopping", "none") EXCEPT !.noop = isShuttingDown]]
               /\ Shutdown
               /\ stopClient' = StopServer("ok")
               /\ UNCHANGED control
          [] kind = "post" ->
               /\ reqs' = [reqs EXCEPT ![r] = [rq EXCEPT !.pc = "reading", !.body = body]]
               /\ UNCHANGED <<supVars, isShuttingDown, shutdownRuns, closeCalls,
                              serverInstance, shutCall, stopClient>>
          [] OTHER ->
               /\ reqs' = [reqs EXCEPT ![r] = Respond(rq, 404, "usage", "Not found")]
               /\ UNCHANGED <<supVars, isShuttingDown, shutdownRuns, closeCalls,
                              serverInstance, shutCall, stopClient>>
  /\ UNCHANGED <<srvPc, signals, readyLines, exits>>

\* The body has been read: parse it, check cmd, and enter executeCommand, whose
\* first await is activateWindow() (session operations when there is a session).
BodyRead(r) ==
  /\ UNCHANGED <<cliVars, auxVars>>
  /\ control = "alive"
  /\ reqs[r].pc = "reading"
  /\ reqs' = [reqs EXCEPT ![r] =
       CASE reqs[r].body.t = "malformed" -> Respond(@, ErrorStatus("body"), "errorOnly", "Invalid JSON")
         [] reqs[r].body.t = "nocmd" -> Respond(@, ErrorStatus("body"), "errorOnly", "Missing 'cmd' field")
         [] reqs[r].body.t = "null" -> Respond(@, ErrorStatus("command"), "failure", "TypeError")
         [] OTHER -> [@ EXCEPT !.pc = "activating", !.touched = (browser # NULL)]]
  /\ UNCHANGED <<supVars, srvPc, serverInstance, isShuttingDown, shutCall, signals,
                 readyLines, shutdownRuns, closeCalls, exits, stopClient>>

\* The response sent without awaiting the command.
AwaitsCommand_Not == FALSE

\* `const result = await executeCommand(...)` before the response is sent.
AwaitsCommand == TRUE

\* activateWindow is over: the switch of executeCommand. A handler begins with
\* requireBrowser(), which throws at once when there is no session.
Dispatch(r) ==
  /\ UNCHANGED <<cliVars, auxVars>>
  /\ control = "alive"
  /\ reqs[r].pc = "activating"
  /\ LET rt == ServerRoute(reqs[r].body.c)
     IN reqs' = [reqs EXCEPT ![r] =
          CASE rt.k = "error" -> Respond(@, ErrorStatus("command"), "failure", rt.v)
            [] rt.k = "status" -> Respond(@, 200, "success", "none")
            [] rt.k = "sleep" ->
                 IF AwaitsCommand THEN [@ EXCEPT !.pc = "running", !.touched = FALSE]
                 ELSE [@ EXCEPT !.pc = "running", !.touched = FALSE, !.status = 200, !.shape = "success"]
            [] OTHER ->
                 IF browser = NULL THEN Respond(@, ErrorStatus("command"), "failure", "Not connected")
                 ELSE IF AwaitsCommand THEN [@ EXCEPT !.pc = "running", !.touched = TRUE]
                 ELSE [@ EXCEPT !.pc = "running", !.touched = TRUE, !.status = 200, !.shape = "success"]]
  /\ UNCHANGED <<supVars, srvPc, serverInstance, isShuttingDown, shutCall, signals,
                 readyLines, shutdownRuns, closeCalls, exits, stopClient>>

\* The handler's promise settles: the timer of sleep fires, or the handler
\* returns its result or throws (element state, timeout, lost session).
Finish(r, ok) ==
  /\ UNCHANGED <<cliVars, auxVars>>
  /\ control = "alive"
  /\ reqs[r].pc = "running"
  /\ ServerRoute(reqs[r].body.c).k = "sleep" => ok
  /\ reqs' = [reqs EXCEPT ![r] =
       IF @.status # 0 THEN [@ EXCEPT !.pc = "done", !.touched = FALSE]
       ELSE IF ok THEN Respond(@, 200, "success", "none")
       ELSE Respond(@, ErrorStatus("command"), "failure", "handler error")]
  /\ UNCHANGED <<supVars, srvPc, serverInstance, isShuttingDown, shutCall, signals,
                 readyLines, shutdownRuns, closeCalls, exits, stopClient>>

\* The CLI's `stop` against a port nobody listens on: fetch is refused.
ClientStopRefused ==
  /\ UNCHANGED <<cliVars, auxVars>>
  /\ srvPc # "off"
  /\ ~(control = "alive" /\ serverInstance = "listening")
  /\ stopClient.outcome # "refused"
  /\ stopClient' = StopServer("refused")
  /\ UNCHANGED <<supVars, srvPc, serverInstance, isShuttingDown, shutCall, reqs, signals,
                 readyLines, shutdownRuns, closeCalls, exits>>

ServerState ==
  IF control # "alive" THEN "Stopped"
  ELSE IF isShuttingDown THEN "ShuttingDown"
  ELSE IF serverInstance = "listening" THEN "Listening"
  ELSE "Starting"

InitServerVars(pc) ==
  /\ srvPc = pc
  /\ serverInstance = "null"
  /\ isShuttingDown = FALSE
  /\ shutCall = NULL
  /\ reqs = [r \in ReqIds |-> NewReq]
  /\ signals = 0
  /\ readyLines = 0
  /\ shutdownRuns = 0
  /\ closeCalls = 0
  /\ exits = 0
  /\ stopClient = NoStop

\* ---------------------------------------------------------------- handlers

\* waitForInteractive(selector, timeout), driver.ts:316-325
Interactive == <<"requireBrowser", "$", "waitForDisplayed", "waitForClickable">>

\* waitForDomStable(), driver.ts:252-311
DomStable == <<"requireBrowser", "executeAsync">>

\* A click that is sent before the element is looked at.
ClickSteps_ClickFirst(aw) ==
  <<"requireBrowser">> \o (IF aw THEN Interactive ELSE <<>>)
    \o <<"$", "click", "isExisting", "isDisplayed">> \o (IF aw THEN DomStable ELSE <<>>)

\* What each handler does, in order: requireBrowser() is synchronous, every
\* other entry is awaited (a session operation, a timer, a file write).
ClickSteps(aw) ==
  <<"requireBrowser">> \o (IF aw THEN Interactive ELSE <<>>)
    \o <<"$", "isExisting", "isDisplayed", "click">> \o (IF aw THEN DomStable ELSE <<>>)

TypeSteps(aw) ==
  <<"requireBrowser">> \o (IF aw THEN Interactive ELSE <<>>)
    \o <<"$", "isExisting", "setValue">> \o (IF aw THEN DomStable ELSE <<>>)

WaitSteps == <<"requireBrowser", "$", "waitForDisplayed">>

EvalSteps == <<"requireBrowser", "executeExpr", "executeWrapped">>

SnapshotSteps(aw, out) ==
  <<"requireBrowser">> \o (IF aw THEN DomStable ELSE <<>>)
    \o <<"execute">> \o (IF out THEN <<"writeFile">> ELSE <<>>)

\* A screenshot that reads the window size without asking for the session first.
ScreenshotSteps_NoRequire(aw, out) ==
  (IF aw THEN DomStable ELSE <<>>)
    \o <<"getWindowSize", "capture">> \o (IF out THEN <<"writeFile">> ELSE <<>>)

ScreenshotSteps(aw, out) ==
  <<"requireBrowser">> \o (IF aw THEN DomStable ELSE <<>>)
    \o <<"getWindowSize", "capture">> \o (IF out THEN <<"writeFile">> ELSE <<>>)

\* case "sleep": await new Promise(resolve => setTimeout(resolve, ms))
SleepSteps == <<"timer">>

Steps(h, aw, out) ==
  CASE h = "click" -> ClickSteps(aw)
    [] h = "type" -> TypeSteps(aw)
    [] h = "wait" -> WaitSteps
    [] h = "eval" -> EvalSteps
    [] h = "snapshot" -> SnapshotSteps(aw, out)
    [] h = "screenshot" -> ScreenshotSteps(aw, out)
    [] OTHER -> SleepSteps

LocalOps == {"timer", "writeFile"}

\* An eval that gives up when the expression form is rejected.
OnResult_NoFallback(op, ok) ==
  CASE op = "executeExpr" -> IF ok THEN "return" ELSE "throw"
    [] OTHER -> IF ok THEN "next" ELSE "throw"

\* What the handler does with the outcome of an awaited operation: evaluate
\* returns the value of `return ${script}` when it resolves and goes on to the
\* wrapped form when it rejects; everywhere else a rejection is thrown.
OnResult(op, ok) ==
  CASE op = "executeExpr" -> IF ok THEN "return" ELSE "next"
    [] OTHER -> IF ok THEN "next" ELSE "throw"

\* The message of the error thrown when an operation of a handler fails.
ErrOf(h, op) ==
  CASE op = "isExisting" -> "Element not found"
    [] op = "isDisplayed" -> "Element not visible"
    [] h = "wait" /\ op = "waitForDisplayed" -> "Element not found after"
    [] OTHER -> "rejected"

IdleHx == [h |-> "none", aw |-> FALSE, out |-> FALSE, st |-> "idle", i |-> 0,
           log |-> <<>>, res |-> "none", sess |-> NULL]

\* Run handler x on from step j up to its next await: requireBrowser() throws
\* when there is no session; the first awaited operation is issued (and logged).
Advance(x, j) ==
  LET S == Steps(x.h, x.aw, x.out)
      rest == {m \in j..Len(S) : S[m] # "requireBrowser"}
      k == IF rest = {} THEN Len(S) + 1 ELSE CHOOSE m \in rest : \A n \in rest : m <= n
      requires == \E m \in j..(k - 1) : S[m] = "requireBrowser"
  IN IF requires /\ browser = NULL
     THEN [x EXCEPT !.st = "done", !.res = "Not connected"]
     ELSE IF k > Len(S) THEN [x EXCEPT !.st = "done", !.res = "ok"]
     ELSE [x EXCEPT !.st = "running", !.i = k, !.log = Append(@, S[k])]

\* A handler is called.
InvokeHandler(h, aw, out) ==
  Advance([IdleHx EXCEPT !.h = h, !.aw = aw, !.out = out, !.sess = browser], 1)

\* A handler that gives the session up when one of its operations fails.
HandlerStep_DropSession(ok) ==
  /\ control = "alive"
  /\ hx.st = "running"
  /\ LET op == Steps(hx.h, hx.aw, hx.out)[hx.i]
         r == OnResult(op, ok)
     IN /\ op = "timer" => ok
        /\ (ok /\ op \notin LocalOps) => hx.sess \in sessions
        /\ hx' = CASE r = "next" -> Advance(hx, hx.i + 1)
                   [] r = "return" -> [hx EXCEPT !.st = "done", !.res = "ok"]
                   [] OTHER -> [hx EXCEPT !.st = "done", !.res = ErrOf(hx.h, op)]
        /\ browser' = IF r \in {"next", "return"} THEN browser ELSE NULL
  /\ UNCHANGED <<control, driverProcess, exitHandlerRegistered, exitHooks, osVars,
                 bridgeVars, calls, srvVars, auxVars, bpc, globalAutoWait, bat, bi,
                 results, executed>>

\* The awaited operation of the running handler settles.
HandlerStep(ok) ==
  /\ control = "alive"
  /\ hx.st = "running"
  /\ LET op == Steps(hx.h, hx.aw, hx.out)[hx.i]
         r == OnResult(op, ok)
     IN /\ op = "timer" => ok
        /\ (ok /\ op \notin LocalOps) => hx.sess \in sessions
        /\ hx' = CASE r = "next" -> Advance(hx, hx.i + 1)
                   [] r = "return" -> [hx EXCEPT !.st = "done", !.res = "ok"]
                   [] OTHER -> [hx EXCEPT !.st = "done", !.res = ErrOf(hx.h, op)]
  /\ UNCHANGED <<supVars, srvVars, auxVars, bpc, globalAutoWait, bat, bi, results, executed>>

\* ---------------------------------------------------------------- a script

\* A caller that awaits each call before it makes the next one.
Quiet == /\ \A c \in CallIds : calls[c].pc \in {"idle", "done", "failed"}
         /\ hx.st # "running"

ScriptConnect == Quiet /\ CallConnect

ScriptDisconnect == Quiet /\ CallDisconnect

ScriptHandler(h, aw, out) ==
  /\ control = "alive"
  /\ Quiet
  /\ out => h \in {"snapshot", "screenshot"}
  /\ hx' = InvokeHandler(h, aw, out)
  /\ UNCHANGED <<supVars, srvVars, auxVars, bpc, globalAutoWait, bat, bi, results, executed>>

\* ---------------------------------------------------------------- batch (cli.ts)

\* A CLI switch that takes an empty script for a script.
BatchRoute_EmptyScript(c) ==
  IF c.cmd = "eval" /\ c.script # "absent" THEN [k |-> "handler", v |-> "eval"]
  ELSE [k |-> "error", v |-> "eval requires a script"]

\* The switch of the CLI's executeCommand (there is no "status" case).
BatchRoute(c) ==
  CASE c.cmd = "screenshot" -> [k |-> "handler", v |-> "screenshot"]
    [] c.cmd = "snapshot" -> [k |-> "handler", v |-> "snapshot"]
    [] c.cmd = "click" -> IF Falsy(c.selector)
                          THEN [k |-> "error", v |-> "click requires a selector"]
                          ELSE [k |-> "handler", v |-> "click"]
    [] c.cmd = "type" -> IF Falsy(c.selector) \/ c.text = "absent"
                         THEN [k |-> "error", v |-> "type requires selector and text"]
                         ELSE [k |-> "handler", v |-> "type"]
    [] c.cmd = "wait" -> IF Falsy(c.selector)
                         THEN [k |-> "error", v |-> "wait requires a selector"]
                         ELSE [k |-> "handler", v |-> "wait"]
    [] c.cmd = "eval" -> IF Falsy(c.script)
                         THEN [k |-> "error", v |-> "eval requires a script"]
                         ELSE [k |-> "handler", v |-> "eval"]
    [] c.cmd = "sleep" -> [k |-> "sleep", v |-> "sleep"]
    [] OTHER -> [k |-> "error", v |-> "Unknown command"]

\* The command-line flags that bear on autoWait.
AutoWaitFlags == {"--auto-wait", "--no-auto-wait"}

\* main: `const autoWait = !options["no-auto-wait"]`, the global setting of the
\* one-shot commands and of batch.
CliAutoWait(flags) == "--no-auto-wait" \notin flags

\* main: `const serverAutoWait = !!options["auto-wait"]`, the server's.
ServerAutoWait(flags) == "--auto-wait" \in flags

GlobalAutoWait(front, flags) ==
  IF front = "server" THEN ServerAutoWait(flags) ELSE CliAutoWait(flags)

\* A resolution that ignores the command's own field.
EffectiveAutoWait_GlobalOnly(c, global) == global

\* executeCommand: `const autoWait = cmd.autoWait ?? globalAutoWait`.
EffectiveAutoWait(c, global) == IF c.autoWait = "unset" THEN global ELSE c.autoWait = "on"

\* The commands of the modelled batches.
BatCmds == {Cmd("click", "set", "absent", "absent", "unset"),
            Cmd("click", "absent", "absent", "absent", "unset"),
            Cmd("eval", "absent", "absent", "set", "unset"),
            Cmd("snapshot", "absent", "absent", "absent", "off"),
            Cmd("sleep", "absent", "absent", "absent", "unset"),
            Cmd("status", "absent", "absent", "absent", "unset")}

BatchInputs == UNION {[1..n -> BatCmds] : n \in 0..MaxBatch}

\* An executeBatch whose catch gives up on the first failure.
ContinueAfterError_Not == FALSE

\* The catch of executeBatch records the failure and the loop goes on.
ContinueAfterError == TRUE

BatchResult(i, c, res) ==
  [index |-> i, cmd |-> c.cmd, success |-> (res = "ok"),
   result |-> IF res = "ok" THEN "value" ELSE "none",
   error |-> IF res = "ok" THEN "none" ELSE res]

\* main: parse the flags, then `await connect(...)`.
MainStart ==
  /\ control = "alive"
  /\ bpc = "start"
  /\ bpc' = "connecting"
  /\ \E flags \in SUBSET AutoWaitFlags : globalAutoWait' = CliAutoWait(flags)
  /\ InvokeConnect(1)
  /\ UNCHANGED <<control, srvVars, auxVars, hx, bat, bi, results, executed>>

\* connect returned: main is at its switch on the command (case "batch" reads stdin).
MainConnected ==
  /\ control = "alive"
  /\ bpc = "connecting"
  /\ calls[1].pc = "done"
  /\ bpc' = "read"
  /\ UNCHANGED <<supVars, srvVars, auxVars, hx, globalAutoWait, bat, bi, results, executed>>

\* connect threw: the catch of main prints the error and calls process.exit(1).
MainConnectFailed ==
  /\ control = "alive"
  /\ bpc = "connecting"
  /\ calls[1].pc = "failed"
  /\ bpc' = "exited"
  /\ ProcessExit
  /\ UNCHANGED <<browser, exitHandlerRegistered, exitHooks, nSessions, calls>>
  /\ UNCHANGED <<srvVars, auxVars, hx, globalAutoWait, bat, bi, results, executed>>

\* stdin holds a JSON array of commands: executeBatch starts.
BatchRead(input) ==
  /\ control = "alive"
  /\ bpc = "read"
  /\ bpc' = "loop"
  /\ bat' = input
  /\ bi' = 0
  /\ results' = <<>>
  /\ UNCHANGED <<supVars, srvVars, auxVars, hx, globalAutoWait, executed>>

\* stdin holds no JSON array: the error is printed and process.exit(1) is called.
BatchReadInvalid ==
  /\ control = "alive"
  /\ bpc = "read"
  /\ bpc' = "exited"
  /\ ProcessExit
  /\ UNCHANGED <<browser, exitHandlerRegistered, exitHooks, nSessions, calls>>
  /\ UNCHANGED <<srvVars, auxVars, hx, globalAutoWait, bat, bi, results, executed>>

\* One turn of the loop of executeBatch: executeCommand(commands[i]) throws its
\* validation error at once, or calls the handler.
BatchNext ==
  /\ control = "alive"
  /\ bpc = "loop"
  /\ bi < Len(bat)
  /\ executed' = Append(executed, bi)
  /\ LET c == bat[bi + 1]
         rt == BatchRoute(c)
     IN IF rt.k = "error"
        THEN /\ results' = Append(results, BatchResult(bi, c, rt.v))
             /\ bi' = bi + 1
             /\ bpc' = IF ContinueAfterError THEN "loop" ELSE "aborted"
             /\ hx' = hx
        ELSE /\ hx' = InvokeHandler(rt.v, EffectiveAutoWait(c, globalAutoWait), FALSE)
             /\ bpc' = "exec"
             /\ UNCHANGED <<results, bi>>
  /\ UNCHANGED <<supVars, srvVars, auxVars, globalAutoWait, bat>>

\* executeCommand settled: push the result of commands[i], success or failure.
BatchCollect ==
  /\ control = "alive"
  /\ bpc = "exec"
  /\ hx.st = "done"
  /\ results' = Append(results, BatchResult(bi, bat[bi + 1], hx.res))
  /\ bi' = bi + 1
  /\ bpc' = IF hx.res = "ok" \/ ContinueAfterError THEN "loop" ELSE "aborted"
  /\ hx' = IdleHx
  /\ UNCHANGED <<supVars, srvVars, auxVars, globalAutoWait, bat, executed>>

\* The loop is over: executeBatch returns, main prints the results, and its
\* finally calls disconnect().
BatchDone ==
  /\ control = "alive"
  /\ bpc = "loop"
  /\ bi = Len(bat)
  /\ NextCall # NULL
  /\ bpc' = "disconnecting"
  /\ InvokeDisconnect(NextCall)
  /\ UNCHANGED <<control, srvVars, auxVars, hx, globalAutoWait, bat, bi, results, executed>>

\* disconnect settled: main is over and the process ends.
MainEnd ==
  /\ control = "alive"
  /\ bpc = "disconnecting"
  /\ \A c \in CallIds : calls[c].pc # "deleting"
  /\ bpc' = "end"
  /\ ProcessExit
  /\ UNCHANGED <<browser, exitHandlerRegistered, exitHooks, nSessions, calls>>
  /\ UNCHANGED <<srvVars, auxVars, hx, globalAutoWait, bat, bi, results, executed>>

\* ---- one-shot commands (cli.ts main, the cases other than "batch")

\* The switch of main for a one-shot command: a missing argument or an unknown
\* command name prints an error and calls process.exit(1); otherwise the handler
\* is called with the global autoWait.
OneShotRoute(c) ==
  CASE c.cmd \in {"screenshot", "snapshot"} -> [k |-> "handler", v |-> c.cmd]
    [] c.cmd \in {"click", "wait"} -> IF Falsy(c.selector)
                                      THEN [k |-> "exit", v |-> "requires a selector"]
                                      ELSE [k |-> "handler", v |-> c.cmd]
    [] c.cmd = "type" -> IF Falsy(c.selector) \/ Falsy(c.text)
                         THEN [k |-> "exit", v |-> "type requires <selector> <text>"]
                         ELSE [k |-> "handler", v |-> "type"]
    [] c.cmd = "eval" -> IF Falsy(c.script)
                         THEN [k |-> "exit", v |-> "eval requires a script"]
                         ELSE [k |-> "handler", v |-> "eval"]
    [] OTHER -> [k |-> "exit", v |-> "Unknown command"]

\* The one-shot invocations modelled.
OneShotCmds == {Cmd("click", "set", "absent", "absent", "unset"),
                Cmd("click", "absent", "absent", "absent", "unset"),
                Cmd("eval", "absent", "absent", "set", "unset"),
                Cmd("snapshot", "absent", "absent", "absent", "unset"),
                Cmd("bogus", "absent", "absent", "absent", "unset")}

\* connect returned and the command is a one-shot one.
MainOneShot(c) ==
  /\ control = "alive"
  /\ bpc = "read"
  /\ IF OneShotRoute(c).k = "exit"
     THEN /\ bpc' = "exited"
          /\ ProcessExit
          /\ hx' = hx
          /\ UNCHANGED <<browser, exitHandlerRegistered, exitHooks, nSessions, calls>>
     ELSE /\ bpc' = "oneshot"
          /\ hx' = InvokeHandler(OneShotRoute(c).v, globalAutoWait, FALSE)
          /\ UNCHANGED supVars
  /\ UNCHANGED <<srvVars, auxVars, globalAutoWait, bat, bi, results, executed>>

\* The handler returned: the result is printed and the finally of main calls
\* disconnect().
MainOneShotDone ==
  /\ control = "alive"
  /\ bpc = "oneshot"
  /\ hx.st = "done" /\ hx.res = "ok"
  /\ NextCall # NULL
  /\ bpc' = "disconnecting"
  /\ InvokeDisconnect(NextCall)
  /\ UNCHANGED <<control, srvVars, auxVars, hx, globalAutoWait, bat, bi, results, executed>>

\* The handler threw: the catch of main prints the error and calls
\* process.exit(1); the process ends there, before the finally block.
MainOneShotFailed ==
  /\ control = "alive"
  /\ bpc = "oneshot"
  /\ hx.st = "done" /\ hx.res # "ok"
  /\ bpc' = "exited"
  /\ ProcessExit
  /\ UNCHANGED <<browser, exitHandlerRegistered, exitHooks, nSessions, calls>>
  /\ UNCHANGED <<srvVars, auxVars, hx, globalAutoWait, bat, bi, results, executed>>

\* The exit status of the CLI process: 1 from process.exit(1); when main runs to
\* its end, 0, or 1 when the disconnect() of its finally rejected (main's promise
\* is rejected and nothing handles it). NONE while the process runs.
ExitCode ==
  CASE bpc = "exited" -> 1
    [] bpc = "end" -> IF \E c \in CallIds : calls[c].op = "disconnect" /\ calls[c].pc = "failed"
                      THEN 1 ELSE 0
    [] OTHER -> NONE

InitCliVars(pc) ==
  /\ hx = IdleHx
  /\ bpc = pc
  /\ globalAutoWait = TRUE
  /\ bat = <<>>
  /\ bi = 0
  /\ results = <<>>
  /\ executed = <<>>

\* ---------------------------------------------------------------- the two dispatchers

\* A handler run to its end against a session whose operations at the step
\* indices in `fails` reject: the operations it issued, and how it ended.
RECURSIVE HandlerRun(_, _, _, _)
HandlerRun(x, j, conn, fails) ==
  LET S == Steps(x.h, x.aw, x.out)
      rest == {m \in j..Len(S) : S[m] # "requireBrowser"}
      k == IF rest = {} THEN Len(S) + 1 ELSE CHOOSE m \in rest : \A n \in rest : m <= n
      requires == \E m \in j..(k - 1) : S[m] = "requireBrowser"
  IN IF requires /\ ~conn THEN [log |-> x.log, res |-> "Not connected"]
     ELSE IF k > Len(S) THEN [log |-> x.log, res |-> "ok"]
     ELSE LET op == S[k]
              r == OnResult(op, op = "timer" \/ k \notin fails)
              y == [x EXCEPT !.log = Append(@, op)]
          IN CASE r = "next" -> HandlerRun(y, k + 1, conn, fails)
               [] r = "return" -> [log |-> y.log, res |-> "ok"]
               [] OTHER -> [log |-> y.log, res |-> ErrOf(x.h, op)]

\* activateWindow() of the server: nothing without a session; otherwise
\* getWindowHandle then switchToWindow, whose errors are swallowed.
ActivateWindow(conn, actFail) ==
  IF ~conn THEN <<>>
  ELSE IF actFail = 1 THEN <<"getWindowHandle">>
  ELSE <<"getWindowHandle", "switchToWindow">>

NoCall == [h |-> "none", aw |-> FALSE]

\* The handler call a dispatcher makes for route rt: click, type, screenshot and
\* snapshot are passed the effective autoWait; wait, eval and sleep are not.
HandlerCall(rt, aw) ==
  IF rt.k \in {"handler", "sleep"}
  THEN [h |-> rt.v, aw |-> IF rt.v \in {"click", "type", "screenshot", "snapshot"} THEN aw ELSE FALSE]
  ELSE NoCall

\* What executeCommand does from its switch on, for route rt.
RunRoute(rt, c, gaw, conn, fails) ==
  LET call == HandlerCall(rt, EffectiveAutoWait(c, gaw))
      run == HandlerRun([IdleHx EXCEPT !.h = call.h, !.aw = call.aw], 1, conn, fails)
  IN CASE rt.k = "error" -> [route |-> rt, call |-> NoCall, hops |-> <<>>, res |-> rt.v]
       [] rt.k = "status" -> [route |-> rt, call |-> NoCall, hops |-> <<>>, res |-> "ok"]
       [] OTHER -> [route |-> rt, call |-> call, hops |-> run.log, res |-> run.res]

\* executeCommand of the server: activateWindow(), then the switch.
ServerExecute(c, gaw, conn, fails, actFail) ==
  LET r == RunRoute(ServerRoute(c), c, gaw, conn, fails)
  IN [route |-> r.route, call |-> r.call, hops |-> r.hops, res |-> r.res,
      ops |-> ActivateWindow(conn, actFail) \o r.hops]

\* executeCommand of the CLI: the switch.
BatchExecute(c, gaw, conn, fails) ==
  LET r == RunRoute(BatchRoute(c), c, gaw, conn, fails)
  IN [route |-> r.route, call |-> r.call, hops |-> r.hops, res |-> r.res, ops |-> r.hops]

NoRun == [route |-> [k |-> "none", v |-> "none"], call |-> NoCall, hops |-> <<>>,
          res |-> "none", ops |-> <<>>]

Fields == {"absent", "empty", "set"}

\* The commands compared: every command name, its relevant fields absent, empty
\* or set, and autoWait unset, on or off.
DispCmds ==
  UNION {
    {Cmd(n, f, "absent", "absent", aw) : n \in {"click", "wait"}, f \in Fields}
      \cup {Cmd("type", f, t, "absent", aw) : f \in Fields, t \in Fields}
      \cup {Cmd("eval", "absent", "absent", f, aw) : f \in Fields}
      \cup {Cmd(n, "absent", "absent", "absent", aw) :
               n \in {"screenshot", "snapshot", "sleep", "status", "bogus"}}
    : aw \in {"unset", "on", "off"}}

\* Which operations of the handler reject: none, one, or two in a row.
MaxSteps == 11
\* The operations that need the element to be there: against a selector that
\* matches nothing, $ still resolves (to an element that does not exist),
\* isExisting resolves to false and the others reject.
ElementOps == {"isExisting", "waitForDisplayed", "waitForClickable", "isDisplayed",
               "click", "setValue"}

\* The steps of handler h that fail when its selector matches no element.
MissingFails(h, aw) ==
  {k \in 1..Len(Steps(h, aw, FALSE)) : Steps(h, aw, FALSE)[k] \in ElementOps}

FailSets ==
  {{}} \cup {{k} : k \in 1..MaxSteps} \cup {{k, k + 1} : k \in 1..(MaxSteps - 1)}
    \cup {MissingFails(h, aw) : h \in {"click", "type"}, aw \in BOOLEAN}

DispIdle ==
  /\ dIn = [c |-> NoCmd, front |-> "batch", flags |-> {}, gaw |-> FALSE, conn |-> FALSE,
            fails |-> {}, actFail |-> 0]
  /\ dOut = [server |-> NoRun, batch |-> NoRun]

InitDisp ==
  /\ dIn \in {d \in [c : DispCmds, front : {"server", "batch"}, flags : SUBSET AutoWaitFlags,
                      gaw : BOOLEAN, conn : BOOLEAN, fails : FailSets, actFail : 0..2] :
                d.gaw = GlobalAutoWait(d.front, d.flags)}
  /\ dOut = [server |-> NoRun, batch |-> NoRun]

DispatchServer ==
  /\ dOut.server = NoRun
  /\ dOut' = [dOut EXCEPT !.server = ServerExecute(dIn.c, dIn.gaw, dIn.conn, dIn.fails, dIn.actFail)]
  /\ UNCHANGED <<supVars, srvVars, cliVars, pageVars, dIn, shot, dom, iw, kt>>

DispatchBatch ==
  /\ dOut.batch = NoRun
  /\ dOut' = [dOut EXCEPT !.batch = BatchExecute(dIn.c, dIn.gaw, dIn.conn, dIn.fails)]
  /\ UNCHANGED <<supVars, srvVars, cliVars, pageVars, dIn, shot, dom, iw, kt>>

\* ---------------------------------------------------------------- screenshot

\* The capture strategies in the order the code tries them.
StrategyOrder(xvfb) ==
  IF xvfb THEN <<"x11", "html2canvas", "canvas">> ELSE <<"native", "html2canvas", "canvas">>

\* A screenshot that tries native capture whatever the display is.
NativeApplies_Always(xvfb) == TRUE

\* `if (!data && xvfbDisplay === null)`: native capture only on a real display.
NativeApplies(xvfb) == ~xvfb

\* A timed-out capture that still stores its bytes when it completes.
LateData_Stored(s, data) == s

\* A capture that lost the race against its timer settles later: withTimeout has
\* already thrown, nobody awaits the promise, data is left as it is.
LateData(s, data) == data

\* The strategies whose error text is part of the final error:
\* `All screenshot methods failed: [x11 failed, ]html2canvas: ${err}, canvas: ${canvasErr}`
MessageCarries(xvfb) == {"html2canvas", "canvas"}

NoShot == [pc |-> "off", conn |-> FALSE, xvfb |-> FALSE, out |-> FALSE, aw |-> FALSE,
           data |-> "none", method |-> "none", tried |-> <<>>, errs |-> <<>>,
           late |-> {}, lateDone |-> {}, sized |-> FALSE, res |-> "none",
           path |-> FALSE, base64 |-> "none", msg |-> {}]

ShotIdle == shot = NoShot

InitShot ==
  \E conn \in BOOLEAN, xvfb \in BOOLEAN, out \in BOOLEAN, aw \in BOOLEAN :
    shot = [NoShot EXCEPT !.pc = "start", !.conn = conn, !.xvfb = xvfb, !.out = out, !.aw = aw]

\* The capture is in hand: write the file if one was asked for, else return.
ShotOutput(x) ==
  IF x.out THEN [x EXCEPT !.pc = "write"]
  ELSE [x EXCEPT !.pc = "done", !.res = "ok", !.base64 = x.data]

\* Try strategy s: x11 is synchronous (execFileSync) and ends at once with
\* x11ok; the others are promises raced against a timer.
RECURSIVE ShotTry(_, _, _)
ShotTry(x, s, x11ok) ==
  LET y == [x EXCEPT !.tried = Append(@, s)]
  IN IF s = "x11"
     THEN IF x11ok THEN ShotOutput([y EXCEPT !.data = "x11", !.method = "x11"])
          ELSE ShotTry([y EXCEPT !.errs = Append(@, "fail")],
                       IF NativeApplies(x.xvfb) THEN "native" ELSE "html2canvas", x11ok)
     ELSE [y EXCEPT !.pc = s]

\* screenshot() up to its first await.
ShotBegin ==
  /\ shot.pc = "start"
  /\ shot' = IF ~shot.conn THEN [shot EXCEPT !.pc = "done", !.res = "Not connected"]
             ELSE IF shot.aw THEN [shot EXCEPT !.pc = "domstable"]
             ELSE [shot EXCEPT !.pc = "size"]
  /\ UNCHANGED <<supVars, srvVars, cliVars, pageVars, dispVars, dom, iw, kt>>

\* waitForDomStable() settled.
ShotDomStable(ok) ==
  /\ shot.pc = "domstable"
  /\ shot' = IF ok THEN [shot EXCEPT !.pc = "size"]
             ELSE [shot EXCEPT !.pc = "done", !.res = "rejected"]
  /\ UNCHANGED <<supVars, srvVars, cliVars, pageVars, dispVars, dom, iw, kt>>

\* getWindowSize() settled; the first strategy of the display is tried.
ShotSize(ok, x11ok) ==
  /\ shot.pc = "size"
  /\ shot' = IF ~ok THEN [shot EXCEPT !.pc = "done", !.res = "rejected"]
             ELSE LET x == [shot EXCEPT !.sized = TRUE]
                  IN IF x.xvfb THEN ShotTry(x, "x11", x11ok)
                     ELSE IF NativeApplies(x.xvfb) THEN ShotTry(x, "native", x11ok)
                     ELSE ShotTry(x, "html2canvas", x11ok)
  /\ UNCHANGED <<supVars, srvVars, cliVars, pageVars, dispVars, dom, iw, kt>>

\* withTimeout(...) of the strategy in flight settles: the capture resolved
\* ("ok"), rejected ("fail"), or the timer won ("timeout").
ShotSettle(outcome) ==
  /\ shot.pc \in {"native", "html2canvas", "canvas"}
  /\ LET s == shot.pc
         failed == [shot EXCEPT !.errs = Append(@, outcome),
                                !.late = IF outcome = "timeout" THEN @ \cup {s} ELSE @]
     IN shot' =
          IF outcome = "ok" THEN ShotOutput([shot EXCEPT !.data = s, !.method = s])
          ELSE IF s = "native" THEN ShotTry(failed, "html2canvas", FALSE)
          ELSE IF s = "html2canvas" THEN ShotTry(failed, "canvas", FALSE)
          ELSE [failed EXCEPT !.pc = "done", !.res = "All screenshot methods failed",
                              !.msg = MessageCarries(shot.xvfb)]
  /\ UNCHANGED <<supVars, srvVars, cliVars, pageVars, dispVars, dom, iw, kt>>

\* A capture that had timed out completes.
ShotLate(s) ==
  /\ s \in shot.late
  /\ shot' = [shot EXCEPT !.late = @ \ {s}, !.lateDone = @ \cup {s},
                          !.data = LateData(s, @)]
  /\ UNCHANGED <<supVars, srvVars, cliVars, pageVars, dispVars, dom, iw, kt>>

\* writeFile(options.output, buffer) settled.
ShotWrite(ok) ==
  /\ shot.pc = "write"
  /\ shot' = IF ok THEN [shot EXCEPT !.pc = "done", !.res = "ok", !.path = TRUE]
             ELSE [shot EXCEPT !.pc = "done", !.res = "rejected"]
  /\ UNCHANGED <<supVars, srvVars, cliVars, pageVars, dispVars, dom, iw, kt>>

\* ---------------------------------------------------------------- waitForDomStable

\* The initial grace window, setTimeout(..., 30), in ticks of 10 ms.
InitialGrace == 3

NoDom == [pc |-> "off", now |-> 0, settleTime |-> 0, timeout |-> 0,
          mutationDetected |-> FALSE, observing |-> FALSE, settleTimer |-> NONE,
          graceTimer |-> FALSE, timeoutTimer |-> FALSE, doneAt |-> NONE, doneCalls |-> 0,
          lastMut |-> NONE, muts |-> 0, attrSeen |-> FALSE]

DomIdle == dom = NoDom

\* The script has run in the page: the observer observes, the 30 ms timer and
\* the timeout timer are set.
InitDom ==
  \E st \in 1..MaxSettle, to \in 1..MaxTimeout :
    dom = [NoDom EXCEPT !.pc = "waiting", !.settleTime = st, !.timeout = to,
                        !.observing = TRUE, !.graceTimer = TRUE, !.timeoutTimer = TRUE]

\* done(): the first call answers the executeAsync.
Done(d) == [d EXCEPT !.doneAt = IF @ = NONE THEN d.now ELSE @, !.doneCalls = @ + 1,
                     !.pc = "returned"]

\* A timer is due: the event loop runs it before time goes on.
DomTimerDue ==
  \/ dom.graceTimer /\ dom.now >= InitialGrace
  \/ dom.timeoutTimer /\ dom.now >= dom.timeout
  \/ dom.settleTimer # NONE /\ dom.now >= dom.settleTimer

DomTick ==
  /\ dom.pc # "off"
  /\ dom.now < MaxClock
  /\ ~DomTimerDue
  /\ dom' = [dom EXCEPT !.now = @ + 1]
  /\ UNCHANGED <<supVars, srvVars, cliVars, pageVars, dispVars, shot, iw, kt>>

\* The page mutates. The observer's callback ignores a batch without childList or
\* characterData records; otherwise it sets mutationDetected and restarts the
\* settle timer.
DomMutate(structural) ==
  /\ dom.pc # "off"
  /\ IF structural
     THEN /\ dom.lastMut # dom.now
          /\ dom' = IF dom.observing
                    THEN [dom EXCEPT !.lastMut = dom.now, !.muts = @ + 1,
                                     !.mutationDetected = TRUE,
                                     !.settleTimer = dom.now + dom.settleTime]
                    ELSE [dom EXCEPT !.lastMut = dom.now, !.muts = @ + 1]
     ELSE /\ ~dom.attrSeen
          /\ dom' = [dom EXCEPT !.attrSeen = TRUE]
  /\ UNCHANGED <<supVars, srvVars, cliVars, pageVars, dispVars, shot, iw, kt>>

\* A check at the end of the grace window that never declares the page stable.
GraceStable_Never(detected) == FALSE

\* `if (!mutationDetected)`: no structural mutation in the grace window.
GraceStable(detected) == ~detected

\* The 30 ms timer fires.
DomGraceFires ==
  /\ dom.graceTimer /\ dom.now >= InitialGrace
  /\ dom' = IF GraceStable(dom.mutationDetected)
            THEN Done([dom EXCEPT !.graceTimer = FALSE, !.observing = FALSE, !.settleTimer = NONE])
            ELSE [dom EXCEPT !.graceTimer = FALSE]
  /\ UNCHANGED <<supVars, srvVars, cliVars, pageVars, dispVars, shot, iw, kt>>

\* The settle timer fires: settleTime has passed since the last structural mutation.
DomSettleFires ==
  /\ dom.settleTimer # NONE /\ dom.now >= dom.settleTimer
  /\ dom' = Done([dom EXCEPT !.settleTimer = NONE, !.observing = FALSE])
  /\ UNCHANGED <<supVars, srvVars, cliVars, pageVars, dispVars, shot, iw, kt>>

\* The absolute timeout fires.
DomTimeoutFires ==
  /\ dom.timeoutTimer /\ dom.now >= dom.timeout
  /\ dom' = Done([dom EXCEPT !.timeoutTimer = FALSE, !.observing = FALSE, !.settleTimer = NONE])
  /\ UNCHANGED <<supVars, srvVars, cliVars, pageVars, dispVars, shot, iw, kt>>


\* ---------------------------------------------------------------- waitForInteractive

NoIw == [pc |-> "off", now |-> 0, timeout |-> 0, deadline |-> NONE, endAt |-> NONE,
         res |-> "none", waits |-> <<>>]

IwIdle == iw = NoIw

\* requireBrowser and browser.$ are over: element.waitForDisplayed({ timeout })
\* starts, with its own deadline.
InitIw ==
  \E to \in 1..MaxWait :
    iw = [NoIw EXCEPT !.pc = "displayed", !.timeout = to, !.deadline = to,
                      !.waits = <<"waitForDisplayed">>]

IwTick ==
  /\ iw.pc \in {"displayed", "clickable"}
  /\ iw.now < iw.deadline
  /\ iw' = [iw EXCEPT !.now = @ + 1]
  /\ UNCHANGED <<supVars, srvVars, cliVars, pageVars, dispVars, shot, dom, kt>>

\* The element is displayed: element.waitForClickable({ timeout }) starts, and
\* its timeout counts from now.
IwDisplayed ==
  /\ iw.pc = "displayed"
  /\ iw' = [iw EXCEPT !.pc = "clickable", !.deadline = iw.now + iw.timeout,
                      !.waits = Append(@, "waitForClickable")]
  /\ UNCHANGED <<supVars, srvVars, cliVars, pageVars, dispVars, shot, dom, kt>>

\* The element is clickable: waitForInteractive returns.
IwClickable ==
  /\ iw.pc = "clickable"
  /\ iw' = [iw EXCEPT !.pc = "done", !.res = "ok", !.endAt = iw.now]
  /\ UNCHANGED <<supVars, srvVars, cliVars, pageVars, dispVars, shot, dom, kt>>

\* The wait in progress reaches its deadline and rejects: waitForInteractive throws.
IwTimeout ==
  /\ iw.pc \in {"displayed", "clickable"}
  /\ iw.now = iw.deadline
  /\ iw' = [iw EXCEPT !.pc = "done", !.res = "rejected", !.endAt = iw.now]
  /\ UNCHANGED <<supVars, srvVars, cliVars, pageVars, dispVars, shot, dom, kt>>

\* ---------------------------------------------------------------- killProcessTree

Procs == 1..MaxProcs

\* The trees: process 1 is the root, every other process has a parent older than it.
Trees == {par \in [Procs -> 0..MaxProcs] : par[1] = 0 /\ \A q \in Procs \ {1} : par[q] \in 1..(q - 1)}

\* pgrep -P p: the direct children of p.
Children(par, p) == {q \in Procs : par[q] = p}

RECURSIVE DescList(_, _)
\* for (const child of children) descendants.push(child, ...getDescendantPids(child))
DescList(par, S) ==
  IF S = {} THEN <<>>
  ELSE LET c == CHOOSE q \in S : \A r \in S : q <= r
       IN <<c>> \o DescList(par, Children(par, c)) \o DescList(par, S \ {c})

\* A search that stops at the direct children.
GetDescendantPids_ChildrenOnly(par, p) ==
  LET S == Children(par, p)
      F[T \in SUBSET S] ==
        IF T = {} THEN <<>>
        ELSE LET c == CHOOSE q \in T : \A r \in T : q <= r IN <<c>> \o F[T \ {c}]
  IN F[S]

\* getDescendantPids(pid): every descendant, each child followed by its own.
GetDescendantPids(par, p) == DescList(par, Children(par, p))

Reverse(sq) == [k \in 1..Len(sq) |-> sq[Len(sq) + 1 - k]]

\* A loop over the descendants as found, parents first.
KillOrder_TopDown(desc) == desc

\* `for (const child of descendants.reverse())`
KillOrder(desc) == Reverse(desc)

RECURSIVE IsDescendant(_, _, _)
\* q is below p in the tree.
IsDescendant(par, q, p) ==
  /\ par[q] # 0
  /\ (par[q] = p \/ IsDescendant(par, par[q], p))

RECURSIVE Depth(_, _)
Depth(par, q) == IF par[q] = 0 THEN 0 ELSE 1 + Depth(par, par[q])

NoKt == [pc |-> "off", par |-> [q \in Procs |-> 0], alive |-> {}, list |-> <<>>,
         signalled |-> <<>>, failed |-> {}, threw |-> FALSE]

KtIdle == kt = NoKt

\* killProcessTree(1) is called on a tree of live processes.
InitKt ==
  \E par \in Trees : kt = [NoKt EXCEPT !.pc = "start", !.par = par, !.alive = Procs]

\* const descendants = getDescendantPids(pid); the loop is set up.
KtDiscover ==
  /\ kt.pc = "start"
  /\ kt' = [kt EXCEPT !.pc = "killing",
                      !.list = KillOrder(GetDescendantPids(kt.par, 1)) \o <<1>>]
  /\ UNCHANGED <<supVars, srvVars, cliVars, pageVars, dispVars, shot, dom, iw>>

\* try { process.kill(p, signal) } catch {}: a live process is killed, a dead one
\* makes kill throw, which is swallowed.
KtSignal ==
  /\ kt.pc = "killing"
  /\ kt.list # <<>>
  /\ LET q == Head(kt.list)
     IN kt' = [kt EXCEPT !.list = Tail(@), !.signalled = Append(@, q),
                         !.alive = @ \ {q},
                         !.failed = IF q \in kt.alive THEN @ ELSE @ \cup {q}]
  /\ UNCHANGED <<supVars, srvVars, cliVars, pageVars, dispVars, shot, dom, iw>>

\* killProcessTree returns.
KtReturn ==
  /\ kt.pc = "killing"
  /\ kt.list = <<>>
  /\ kt' = [kt EXCEPT !.pc = "returned"]
  /\ UNCHANGED <<supVars, srvVars, cliVars, pageVars, dispVars, shot, dom, iw>>

\* A process of the tree ends on its own while the loop runs.
KtExit(q) ==
  /\ kt.pc = "killing"
  /\ q \in kt.alive
  /\ kt' = [kt EXCEPT !.alive = @ \ {q}]
  /\ UNCHANGED <<supVars, srvVars, cliVars, pageVars, dispVars, shot, dom, iw>>


\* ---------------------------------------------------------------- waitForPageLoad

\* Time is counted in ticks of 100 ms.
MaxLoadTimeout == 6   \* waitTimeout, in ticks
MaxExec == 2          \* the longest a browser.execute takes to settle, in ticks
SettleDelay == 5      \* the 500 ms wait after readyState is "complete"
PollDelay == 2        \* the 200 ms wait at the end of each turn of the loop
FinalDelay == 10      \* the 1000 ms wait after the loop
ContentThreshold == 100

NoPl == [pc |-> "off", now |-> 0, start |-> 0, timeout |-> 0, wake |-> NONE,
         readyState |-> "loading", bodyLength |-> 0, detected |-> FALSE, errors |-> 0]

PlIdle == pl = NoPl

\* A loop whose errors leave waitForPageLoad.
OnPollError_Throw == "failed"

\* `catch { // Page might be navigating, retry }`: an execute that rejects
\* ends the turn of the loop; the 200 ms wait and the next turn follow.
OnPollError == "retry"

\* The lengths the body's markup is drawn from.
BodyLengths == {0, ContentThreshold, ContentThreshold + 1}

\* const start = Date.now()
InitPl ==
  pl \in [pc : {"top"}, now : {0}, start : {0}, timeout : 0..MaxLoadTimeout, wake : {NONE},
          readyState : {"loading", "complete"}, bodyLength : BodyLengths,
          detected : {FALSE}, errors : {0}]

\* while (Date.now() - start < timeout): another turn, or the loop is over and
\* the final wait begins.
PlTop ==
  /\ pl.pc = "top"
  /\ pl' = IF pl.now - pl.start < pl.timeout
           THEN [pl EXCEPT !.pc = "readyState"]
           ELSE [pl EXCEPT !.pc = "final", !.wake = pl.now + FinalDelay]
  /\ UNCHANGED <<supVars, srvVars, cliVars, unitVars, snap, wf, envVars>>

\* What follows a turn that did not find the page ready.
PlAgain(x, err) ==
  IF err /\ OnPollError # "retry"
  THEN [x EXCEPT !.pc = OnPollError, !.errors = 1]
  ELSE [x EXCEPT !.pc = "retry", !.wake = x.now + PollDelay,
                 !.errors = IF err THEN 1 ELSE @]

\* `await browser.execute(() => document.readyState)` settles after d ticks.
PlReadyState(ok, d) ==
  /\ pl.pc = "readyState"
  /\ LET x == [pl EXCEPT !.now = @ + d]
     IN pl' = IF ~ok THEN PlAgain(x, TRUE)
              ELSE IF x.readyState = "complete"
              THEN [x EXCEPT !.pc = "settle", !.wake = x.now + SettleDelay]
              ELSE PlAgain(x, FALSE)
  /\ UNCHANGED <<supVars, srvVars, cliVars, unitVars, snap, wf, envVars>>

\* The 500 ms wait is over: the length of the body's text is asked for.
PlSettle ==
  /\ pl.pc = "settle"
  /\ pl' = [pl EXCEPT !.pc = "bodyLength", !.now = pl.wake, !.wake = NONE]
  /\ UNCHANGED <<supVars, srvVars, cliVars, unitVars, snap, wf, envVars>>

\* `await browser.execute(() => document.body.innerHTML.length)` settles:
\* `if (bodyLength > 100) return`.
PlBodyLength(ok, d) ==
  /\ pl.pc = "bodyLength"
  /\ LET x == [pl EXCEPT !.now = @ + d]
     IN pl' = IF ~ok THEN PlAgain(x, TRUE)
              ELSE IF x.bodyLength > ContentThreshold
              THEN [x EXCEPT !.pc = "returned", !.detected = TRUE]
              ELSE PlAgain(x, FALSE)
  /\ UNCHANGED <<supVars, srvVars, cliVars, unitVars, snap, wf, envVars>>

\* The 200 ms wait is over: back to the loop's test.
PlRetry ==
  /\ pl.pc = "retry"
  /\ pl' = [pl EXCEPT !.pc = "top", !.now = pl.wake, !.wake = NONE]
  /\ UNCHANGED <<supVars, srvVars, cliVars, unitVars, snap, wf, envVars>>

\* The final 1000 ms wait is over: waitForPageLoad returns.
PlFinal ==
  /\ pl.pc = "final"
  /\ pl' = [pl EXCEPT !.pc = "returned", !.now = pl.wake, !.wake = NONE]
  /\ UNCHANGED <<supVars, srvVars, cliVars, unitVars, snap, wf, envVars>>

\* The page goes on loading (or navigates) while it is watched.
PlPage(rs, len) ==
  /\ pl.pc \notin {"off", "returned", "failed"}
  /\ <<rs, len>> # <<pl.readyState, pl.bodyLength>>
  /\ pl' = [pl EXCEPT !.readyState = rs, !.bodyLength = len]
  /\ UNCHANGED <<supVars, srvVars, cliVars, unitVars, snap, wf, envVars>>

\* The steps of waitForPageLoad itself.
PlProgram ==
  \/ PlTop \/ PlSettle \/ PlRetry \/ PlFinal
  \/ \E ok \in BOOLEAN, d \in 0..MaxExec : PlReadyState(ok, d) \/ PlBodyLength(ok, d)

\* ---------------------------------------------------------------- snapshot

\* An element of the document: its tag, its attributes (a function from the
\* names of the attributes it carries to their values, a value being its
\* space-separated words: <<>> is the empty string), whether it is hidden, its
\* direct text and its child elements.
El(tag, attrs, hidden, text, kids) ==
  [tag |-> tag, attrs |-> attrs, hidden |-> hidden, text |-> text, kids |-> kids]

NoAttrs == [a \in {} |-> <<>>]

\* el.getAttribute(a): null for an attribute the element does not carry.
HasAttr(el, a) == a \in DOMAIN el.attrs

\* `if (val)`: null and the empty string are falsy.
TruthyAttr(el, a) == HasAttr(el, a) /\ el.attrs[a] # <<>>

\* getRole: the role attribute, else roleMap[tag] || tag.
GetRole(el) ==
  IF TruthyAttr(el, "role") THEN el.attrs["role"][1]
  ELSE CASE el.tag = "button" -> "button"
         [] el.tag = "input" -> "textbox"
         [] el.tag = "img" -> "img"
         [] el.tag = "ul" -> "list"
         [] OTHER -> el.tag

\* el.textContent: the text of the element and of everything below it.
RECURSIVE TextContent(_)
TextContent(el) ==
  IF el.text # "" \/ \E i \in 1..Len(el.kids) : TextContent(el.kids[i]) # ""
  THEN "t" ELSE ""

\* getAccessibleName: aria-label, then alt for images, then the text content of
\* buttons and links.
GetAccessibleName(el) ==
  IF TruthyAttr(el, "aria-label") THEN "label"
  ELSE IF el.tag = "img" THEN (IF TruthyAttr(el, "alt") THEN "alt" ELSE "")
  ELSE IF el.tag \in {"button", "a"} THEN TextContent(el)
  ELSE ""

\* `if (depth > 10) return null`
MaxTreeDepth == 10

SkippedTags == {"script", "style", "noscript"}

IntrinsicTags == {"img", "input", "textarea", "select"}

\* The attributes of relevantAttrs that the listing shows.
RelevantAttrs == {"id", "class", "type", "disabled", "checked"}

\* A walk that keeps every element it does not skip.
IsEmptyContainer_Never(name, text, children, tag) == FALSE

\* `!name && !text && children.length === 0 && ![...].includes(tag)`
IsEmptyContainer(name, text, children, tag) ==
  name = "" /\ text = "" /\ children = <<>> /\ tag \notin IntrinsicTags

\* buildTree(el, depth): <<>> for null, else the one node built. src is the
\* place of el in the document (the child indices from the body down).
RECURSIVE BuildTree(_, _, _)
RECURSIVE BuildChildren(_, _, _, _)
BuildChildren(el, depth, src, i) ==
  IF i > Len(el.kids) THEN <<>>
  ELSE BuildTree(el.kids[i], depth + 1, Append(src, i)) \o BuildChildren(el, depth, src, i + 1)

\* A walk without the depth cap.
BuildTree_NoCap(el, depth, src) ==
  IF el.tag \in SkippedTags \/ el.hidden THEN <<>>
  ELSE LET name == GetAccessibleName(el)
           attrs == [a \in {b \in RelevantAttrs : TruthyAttr(el, b)} |-> el.attrs[a]]
           children == BuildChildren(el, depth, src, 1)
       IN IF IsEmptyContainer(name, el.text, children, el.tag) THEN <<>>
          ELSE <<[role |-> GetRole(el), name |-> name, text |-> el.text, attrs |-> attrs,
                  children |-> children, src |-> src]>>

BuildTree(el, depth, src) ==
  IF depth > MaxTreeDepth THEN <<>>
  ELSE IF el.tag \in SkippedTags \/ el.hidden THEN <<>>
  ELSE LET name == GetAccessibleName(el)
           attrs == [a \in {b \in RelevantAttrs : TruthyAttr(el, b)} |-> el.attrs[a]]
           children == BuildChildren(el, depth, src, 1)
       IN IF IsEmptyContainer(name, el.text, children, el.tag) THEN <<>>
          ELSE <<[role |-> GetRole(el), name |-> name, text |-> el.text, attrs |-> attrs,
                  children |-> children, src |-> src]>>

\* `.split(" ").slice(0, 2)`
FirstTwo(words) == SubSeq(words, 1, IF Len(words) < 2 THEN Len(words) ELSE 2)

\* The inline markers of toYaml, in the order they are pushed.
InlineAttrs(node) ==
  (IF "id" \in DOMAIN node.attrs THEN <<[k |-> "#", v |-> node.attrs["id"]]>> ELSE <<>>)
  \o (IF "class" \in DOMAIN node.attrs
      THEN <<[k |-> ".", v |-> FirstTwo(node.attrs["class"])]>> ELSE <<>>)
  \o (IF "type" \in DOMAIN node.attrs
      THEN <<[k |-> "[type=]", v |-> node.attrs["type"]]>> ELSE <<>>)
  \o (IF "disabled" \in DOMAIN node.attrs THEN <<[k |-> "[disabled]", v |-> <<>>]>> ELSE <<>>)
  \o (IF "checked" \in DOMAIN node.attrs THEN <<[k |-> "[checked]", v |-> <<>>]>> ELSE <<>>)

\* toYaml(node, indent): the lines of the listing, one per node; each line is
\* its leading spaces, `- role`, the quoted name, the markers and the text.
RECURSIVE ToYaml(_, _)
RECURSIVE ToYamlAll(_, _, _)
ToYamlAll(nodes, indent, i) ==
  IF i > Len(nodes) THEN <<>>
  ELSE ToYaml(nodes[i], indent) \o ToYamlAll(nodes, indent, i + 1)

ToYaml(node, indent) ==
  <<[spaces |-> 2 * indent, role |-> node.role, name |-> node.name,
     markers |-> InlineAttrs(node),
     text |-> IF node.text # "" /\ node.name = "" THEN node.text ELSE "",
     src |-> node.src]>>
  \o ToYamlAll(node.children, indent + 1, 1)

\* The documents walked.
MaxKids == 2        \* child elements of an element
MaxChain == 12      \* the deepest nesting

SeqsUpTo(S, n) == UNION {[1..k -> S] : k \in 0..n}

Leaves ==
  {El(tag, NoAttrs, FALSE, text, <<>>) : tag \in {"div", "script", "button"}, text \in {"", "t"}}
    \cup {El("style", NoAttrs, FALSE, "t", <<>>), El("img", NoAttrs, FALSE, "", <<>>),
          El("div", NoAttrs, TRUE, "t", <<>>),
          El("div", [a \in {"aria-label"} |-> <<"Close">>], FALSE, "", <<>>),
          El("div", [a \in {"role"} |-> <<"alert">>], FALSE, "", <<>>)}

Boxes == {El(tag, NoAttrs, FALSE, "", kids) :
            tag \in {"div", "script"}, kids \in SeqsUpTo(Leaves, MaxKids) \ {<<>>}}

Nested ==
  {El("div", NoAttrs, FALSE, "", <<b>> \o rest) :
     b \in Boxes,
     rest \in SeqsUpTo({El("div", NoAttrs, FALSE, text, <<>>) : text \in {"", "t"}}, MaxKids - 1)}

\* n elements nested in one another, the innermost with text, the others with
\* text or without.
RECURSIVE Chain(_, _)
Chain(n, text) ==
  IF n = 0 THEN El("div", NoAttrs, FALSE, "t", <<>>)
  ELSE El("div", NoAttrs, FALSE, text, <<Chain(n - 1, text)>>)

Chains == {Chain(n, text) : n \in 0..MaxChain, text \in {"", "t"}}

\* Form controls with and without id, class, type, disabled and checked; a
\* boolean attribute written bare (<button disabled>) has the empty string as
\* its value.
AttrSets ==
  {[a \in S |-> CASE a = "id" -> <<"save">>
                  [] a = "class" -> c
                  [] a = "type" -> <<"checkbox">>
                  [] a = "disabled" -> d
                  [] a = "checked" -> d] :
     S \in SUBSET RelevantAttrs,
     c \in {<<"btn">>, <<"btn", "primary">>, <<"btn", "primary", "large">>},
     d \in {<<>>, <<"true">>}}

Controls == {El(tag, attrs, FALSE, "", <<>>) : tag \in {"input"}, attrs \in AttrSets}

Forms == Controls \cup {El("div", NoAttrs, FALSE, "t", <<e>>) : e \in Controls}

Documents == Leaves \cup Boxes \cup Nested \cup Chains \cup Forms

NoSnap == [pc |-> "off", dom |-> El("body", NoAttrs, FALSE, "", <<>>), tree |-> <<>>,
           yaml |-> <<>>]

SnapIdle == snap = NoSnap

InitSnap == snap \in [pc : {"start"}, dom : Documents, tree : {<<>>}, yaml : {<<>>}]

\* const tree = await browser.execute(... return buildTree(document.body))
SnapExecute ==
  /\ snap.pc = "start"
  /\ snap' = [snap EXCEPT !.pc = "built", !.tree = BuildTree(snap.dom, 0, <<>>)]
  /\ UNCHANGED <<supVars, srvVars, cliVars, unitVars, pl, wf, envVars>>

\* const yaml = toYaml(tree, 0); toYaml(null) is the empty string.
SnapToYaml ==
  /\ snap.pc = "built"
  /\ snap' = [snap EXCEPT !.pc = "done",
                          !.yaml = IF snap.tree = <<>> THEN <<>> ELSE ToYaml(snap.tree[1], 0)]
  /\ UNCHANGED <<supVars, srvVars, cliVars, unitVars, pl, wf, envVars>>

\* ---------------------------------------------------------------- waitFor

\* How long after its deadline a waitForDisplayed may settle, in ticks.
MaxLag == 1

\* A wait that reports every timeout as "not found".
WaitError_NotFound(gone) == "Element not found after"

\* The message of the error waitFor throws from its catch.
WaitError(gone) == IF gone THEN "Element still visible after" ELSE "Element not found after"

NoWf == [pc |-> "off", gone |-> FALSE, timeout |-> 0, now |-> 0, start |-> 0,
         visible |-> FALSE, issued |-> 0, found |-> FALSE, err |-> "none", elapsed |-> NONE]

WfIdle == wf = NoWf

\* waitFor(selector, {timeout, gone}) with a session: const start = Date.now(),
\* then `await browser.$(selector)`.
InitWf ==
  wf \in [pc : {"find"}, gone : BOOLEAN, timeout : 0..MaxWait, now : {0}, start : {0},
          visible : BOOLEAN, issued : {0}, found : {FALSE}, err : {"none"}, elapsed : {NONE}]

\* `await browser.$(selector)` settles after d ticks. It stands before the try:
\* its rejection leaves waitFor as it is. Otherwise waitForDisplayed is called,
\* with reverse when gone is asked for.
WfFind(ok, d) ==
  /\ wf.pc = "find"
  /\ wf' = IF ok THEN [wf EXCEPT !.pc = "waiting", !.now = @ + d, !.issued = @ + 1]
           ELSE [wf EXCEPT !.pc = "failed", !.now = @ + d, !.err = "rejected"]
  /\ UNCHANGED <<supVars, srvVars, cliVars, unitVars, pl, snap, envVars>>

\* waitForDisplayed looks at the element and finds what it waits for: shown, or
\* with reverse not shown. waitFor returns {selector, found: !gone, elapsed}.
WfSatisfied ==
  /\ wf.pc = "waiting"
  /\ wf.visible = ~wf.gone
  /\ wf' = [wf EXCEPT !.pc = "done", !.found = ~wf.gone, !.elapsed = wf.now - wf.start]
  /\ UNCHANGED <<supVars, srvVars, cliVars, unitVars, pl, snap, envVars>>

\* waitForDisplayed rejects, at its deadline or before it for another reason
\* (the session is gone, the transport fails): the catch throws WaitError with
\* the time elapsed.
WfRejected(early) ==
  /\ wf.pc = "waiting"
  /\ early \/ wf.now - wf.start >= wf.timeout
  /\ wf' = [wf EXCEPT !.pc = "failed", !.err = WaitError(wf.gone),
                      !.elapsed = wf.now - wf.start]
  /\ UNCHANGED <<supVars, srvVars, cliVars, unitVars, pl, snap, envVars>>

\* Time passes while waitForDisplayed polls.
WfTick ==
  /\ wf.pc = "waiting"
  /\ wf.now - wf.start < wf.timeout + MaxLag
  /\ wf' = [wf EXCEPT !.now = @ + 1]
  /\ UNCHANGED <<supVars, srvVars, cliVars, unitVars, pl, snap, envVars>>

\* The page shows or hides the element.
WfPage ==
  /\ wf.pc \in {"find", "waiting"}
  /\ wf' = [wf EXCEPT !.visible = ~@]
  /\ UNCHANGED <<supVars, srvVars, cliVars, unitVars, pl, snap, envVars>>

\* The steps of waitFor and of the wait it awaits.
WfProgram ==
  \/ \E ok \in BOOLEAN, d \in 0..1 : WfFind(ok, d)
  \/ WfSatisfied \/ WfTick
  \/ \E early \in BOOLEAN : WfRejected(early)

\* ---------------------------------------------------------------- Xvfb

\* Xvfb processes this process may spawn, and display numbers probed.
MaxXvfb == 3
MaxDisplays == 2
FirstDisplay == 99
XvIds == 1..MaxXvfb
Displays == FirstDisplay..(FirstDisplay + MaxDisplays - 1)

NoXv == [pc |-> "off", process |-> NULL, display |-> NULL, st |-> [p \in XvIds |-> "none"],
         on |-> [p \in XvIds |-> NULL], cur |-> NULL, foreign |-> {}, op |-> "none"]

XvIdle == xv = NoXv

\* Module load: xvfbProcess = null, xvfbDisplay = null. Other X servers of the
\* machine hold some displays.
InitXv ==
  xv \in [pc : {"idle"}, process : {NULL}, display : {NULL}, st : {[p \in XvIds |-> "none"]},
          on : {[p \in XvIds |-> NULL]}, cur : {NULL}, foreign : SUBSET Displays,
          op : {"none"}]

\* Displays whose lock file or socket exists: those of other servers and those
\* of the Xvfb processes spawned here that have not exited.
Locked == xv.foreign \cup {xv.on[p] : p \in {q \in XvIds : xv.st[q] \in {"alive", "dying"}}}

\* findAvailableDisplay: the first display from :99 up with neither lock file
\* nor socket; :99 when every one is taken.
FindAvailableDisplay(locked) ==
  IF Displays \subseteq locked THEN FirstDisplay
  ELSE CHOOSE d \in Displays \ locked : \A e \in Displays \ locked : d <= e

\* getXvfbDisplay(): return xvfbDisplay.
GetXvfbDisplay == xv.display

\* The body of stopXvfb(): with a handle, SIGTERM to it and both variables
\* cleared; without one, nothing.
StopXvfbBody(x) ==
  IF x.process # NULL
  THEN [x EXCEPT !.st[x.process] = IF @ = "alive" THEN "dying" ELSE @,
                 !.process = NULL, !.display = NULL]
  ELSE x

\* startXvfb() up to its await: the display is picked, Xvfb is spawned and the
\* handle stored over whatever it held, the "error" and "exit" listeners are
\* attached. ok: the spawn found the binary.
StartXvfb(ok) ==
  /\ xv.pc = "idle"
  /\ \E p \in XvIds :
       /\ xv.st[p] = "none" /\ \A q \in XvIds : q < p => xv.st[q] # "none"
       /\ xv' = [xv EXCEPT !.pc = "waiting", !.process = p, !.cur = p,
                           !.st[p] = IF ok THEN "alive" ELSE "failed",
                           !.on[p] = FindAvailableDisplay(Locked), !.op = "spawned"]
  /\ UNCHANGED <<supVars, srvVars, cliVars, unitVars, pl, snap, wf, ev>>

\* waitForDisplay answered true: xdpyinfo reached a server on the display.
\* xvfbDisplay = display, and the number is returned.
StartXvfbReady ==
  /\ xv.pc = "waiting"
  /\ xv.st[xv.cur] = "alive" \/ xv.on[xv.cur] \in xv.foreign
  /\ xv' = [xv EXCEPT !.pc = "idle", !.display = xv.on[xv.cur], !.op = "ready"]
  /\ UNCHANGED <<supVars, srvVars, cliVars, unitVars, pl, snap, wf, ev>>

\* waitForDisplay answered false after its 10 s: stopXvfb(), then the throw.
StartXvfbTimeout ==
  /\ xv.pc = "waiting"
  /\ xv' = [StopXvfbBody(xv) EXCEPT !.pc = "idle", !.op = "failed"]
  /\ UNCHANGED <<supVars, srvVars, cliVars, unitVars, pl, snap, wf, ev>>

\* A call of stopXvfb().
StopXvfb ==
  /\ xv.pc \in {"idle", "waiting"}
  /\ xv' = [StopXvfbBody(xv) EXCEPT !.op = IF xv.process # NULL THEN "stopped" ELSE "noop"]
  /\ UNCHANGED <<supVars, srvVars, cliVars, unitVars, pl, snap, wf, ev>>

\* An Xvfb process exits, on its own or from the SIGTERM; after a failed spawn
\* the "exit" event may follow the "error" event. The listener of every
\* process does `xvfbProcess = null`.
XvfbExit(p) ==
  /\ xv.pc \in {"idle", "waiting"}
  /\ xv.st[p] \in {"alive", "dying", "failed"}
  /\ xv' = [xv EXCEPT !.st[p] = "dead", !.process = NULL]
  /\ UNCHANGED <<supVars, srvVars, cliVars, unitVars, pl, snap, wf, ev>>

\* ---------------------------------------------------------------- evaluate

\* Statements in a script.
MaxStmts == 3
StmtIds == 1..MaxStmts

\* A statement of the user's script: an expression statement, a declaration or
\* other non-expression statement, or a return statement. throws: running it
\* raises an error in the page. The value of statement i is written i.
Stmts == [kind : {"expr", "decl", "return"}, throws : BOOLEAN]
Scripts == UNION {[1..n -> Stmts] : n \in StmtIds}

NoOutcome == [k |-> "none", v |-> 0]
NoRuns == [i \in StmtIds |-> 0]

NoEv == [pc |-> "off", script |-> <<>>, runs |-> NoRuns, execs |-> 0, result |-> NoOutcome]

EvIdle == ev = NoEv

\* evaluate(script) with a session.
InitEv == ev \in [pc : {"start"}, script : Scripts, runs : {NoRuns}, execs : {0},
                  result : {NoOutcome}]

\* `return ${script}`: the text "return " in front of the script makes its first
\* statement the operand of a return. The text parses only if that statement
\* is an expression; the statements after it are left as they are.
ExpressionForm(script) ==
  IF script[1].kind = "expr"
  THEN [ok |-> TRUE, body |-> [script EXCEPT ![1].kind = "return"]]
  ELSE [ok |-> FALSE, body |-> <<>>]

\* `return (function() { ${script} })();`: the script is the body of a function
\* that is called once; every statement of the script parses there.
WrappedForm(script) == [ok |-> TRUE, body |-> script]

\* The page runs the statements of a function body from statement i on: each
\* statement reached is run (runs counts it); an error ends the run, and so does
\* a return, with the value of its statement; falling off the end gives undefined.
RECURSIVE RunBody(_, _, _)
RunBody(body, i, runs) ==
  IF i > Len(body) THEN [runs |-> runs, out |-> [k |-> "value", v |-> 0]]
  ELSE LET ran == [runs EXCEPT ![i] = @ + 1]
       IN IF body[i].throws THEN [runs |-> ran, out |-> [k |-> "error", v |-> i]]
          ELSE IF body[i].kind = "return" THEN [runs |-> ran, out |-> [k |-> "value", v |-> i]]
          ELSE RunBody(body, i + 1, ran)

\* browser.execute(text): a text that does not parse is rejected before
\* anything runs; otherwise the page runs it and the promise settles with the
\* value or the error.
Execute(form, runs) ==
  IF form.ok THEN RunBody(form.body, 1, runs)
  ELSE [runs |-> runs, out |-> [k |-> "error", v |-> 0]]

\* evaluate's `catch {`: whatever the error, the wrapped form is tried.
OnExecuteError == "fallback"

\* try { return await browser.execute(`return ${script}`) } catch { ... }
EvaluateExpression ==
  /\ ev.pc = "start"
  /\ LET form == ExpressionForm(ev.script)
         r == Execute(form, ev.runs)
     IN ev' = [ev EXCEPT !.runs = r.runs,
                         !.execs = IF form.ok THEN @ + 1 ELSE @,
                         !.result = r.out,
                         !.pc = IF r.out.k = "value" THEN "done" ELSE OnExecuteError]
  /\ UNCHANGED <<supVars, srvVars, cliVars, unitVars, pl, snap, wf, xv>>

\* The catch: browser.execute of the wrapped form; its value is returned, its
\* error leaves evaluate.
EvaluateWrapped ==
  /\ ev.pc = "fallback"
  /\ LET form == WrappedForm(ev.script)
         r == Execute(form, ev.runs)
     IN ev' = [ev EXCEPT !.runs = r.runs, !.execs = @ + 1, !.result = r.out,
                         !.pc = IF r.out.k = "value" THEN "done" ELSE "failed"]
  /\ UNCHANGED <<supVars, srvVars, cliVars, unitVars, pl, snap, wf, xv>>

\* ---------------------------------------------------------------- specifications

\* The idle values of the variables of the stand-alone checks.
PageIdle == PlIdle /\ SnapIdle /\ WfIdle /\ XvIdle /\ EvIdle

InitAux == DispIdle /\ ShotIdle /\ DomIdle /\ IwIdle /\ KtIdle /\ PageIdle

\* The supervisor under a free caller of connect and disconnect.
InitSup == InitSupervisor /\ InitServerVars("off") /\ InitCliVars("off") /\ InitAux

NextSup ==
  \/ CallConnect \/ CallDisconnect
  \/ CallStep
  \/ ShellStep
  \/ ControlExit \/ ControlKilled

SpecSup == InitSup /\ [][NextSup]_vars

\* The operating system schedules the wrapper shell: each step of its script that
\* can run does run.
SpecSupFair ==
  /\ SpecSup
  /\ \A g \in Gens :
       /\ WF_vars(ShellLaunch(g)) /\ WF_vars(ShellTrap(g))
       /\ WF_vars(ShellReadEof(g)) /\ WF_vars(ShellExit(g))

\* The server front-end.
InitServer == InitSupervisor /\ InitServerVars("start") /\ InitCliVars("off") /\ InitAux

ShellRun == \E g \in Gens : ShellLaunch(g) \/ ShellTrap(g)

ReqStep ==
  \/ \E r \in ReqIds, kind \in ReqKinds \ {"post"} : Arrive(r, kind, Body("none", NoCmd))
  \/ \E r \in ReqIds, body \in SrvBodies : Arrive(r, "post", body)
  \/ \E r \in ReqIds : BodyRead(r) \/ Dispatch(r)
  \/ \E r \in ReqIds, ok \in BOOLEAN : Finish(r, ok)

NextServer ==
  \/ StartServer \/ ConnectReturned \/ ConnectFailed \/ KeepAliveDone
  \/ Signal
  \/ ReqStep
  \/ ShutdownExit
  \/ ClientStopRefused
  \/ CallStep
  \/ ShellRun

SpecServer == InitServer /\ [][NextServer]_vars

\* Network round trips to the bridge settle (the WebDriver client times out a
\* request that gets no answer), and the event loop runs what is runnable.
SpecServerFair ==
  /\ SpecServer
  /\ \A c \in CallIds : WF_vars(DeleteReject(c))
  /\ WF_vars(ShutdownExit)

\* The handlers under a script that awaits each call: connect, disconnect and
\* the six handlers in any order.
InitCmd == InitSupervisor /\ InitServerVars("off") /\ InitCliVars("off") /\ InitAux

NextCmd ==
  \/ ScriptConnect \/ ScriptDisconnect
  \/ \E h \in Handlers, aw \in BOOLEAN, out \in BOOLEAN : ScriptHandler(h, aw, out)
  \/ \E ok \in BOOLEAN : HandlerStep(ok)
  \/ CallStep
  \/ ShellRun

SpecCmd == InitCmd /\ [][NextCmd]_vars

\* The CLI's main: connect, then a batch or a one-shot command, then disconnect.
InitBatch == InitSupervisor /\ InitServerVars("off") /\ InitCliVars("start") /\ InitAux

NextBatch ==
  \/ MainStart \/ MainConnected \/ MainConnectFailed
  \/ \E input \in BatchInputs : BatchRead(input)
  \/ BatchReadInvalid
  \/ BatchNext \/ BatchCollect \/ BatchDone \/ MainEnd
  \/ \E c \in OneShotCmds : MainOneShot(c)
  \/ MainOneShotDone \/ MainOneShotFailed
  \/ \E ok \in BOOLEAN : HandlerStep(ok)
  \/ CallStep
  \/ ShellRun

SpecBatch == InitBatch /\ [][NextBatch]_vars

\* The two dispatchers on the same command, the same global autoWait, the same
\* session state and the same behaviour of the session.
InitDispatch ==
  /\ InitSupervisor /\ InitServerVars("off") /\ InitCliVars("off")
  /\ InitDisp /\ ShotIdle /\ DomIdle /\ IwIdle /\ KtIdle /\ PageIdle

NextDispatch == DispatchServer \/ DispatchBatch

SpecDispatch == InitDispatch /\ [][NextDispatch]_vars

\* One screenshot() call, for either display, with and without an output file.
InitScreenshot ==
  /\ InitSupervisor /\ InitServerVars("off") /\ InitCliVars("off")
  /\ DispIdle /\ InitShot /\ DomIdle /\ IwIdle /\ KtIdle /\ PageIdle

NextScreenshot ==
  \/ ShotBegin
  \/ \E ok \in BOOLEAN : ShotDomStable(ok)
  \/ \E ok \in BOOLEAN, x11ok \in BOOLEAN : ShotSize(ok, x11ok)
  \/ \E outcome \in {"ok", "fail", "timeout"} : ShotSettle(outcome)
  \/ \E s \in {"native", "html2canvas", "canvas"} : ShotLate(s)
  \/ \E ok \in BOOLEAN : ShotWrite(ok)

SpecScreenshot == InitScreenshot /\ [][NextScreenshot]_vars

\* One waitForDomStable() in a page that mutates as it likes.
InitDomStable ==
  /\ InitSupervisor /\ InitServerVars("off") /\ InitCliVars("off")
  /\ DispIdle /\ ShotIdle /\ InitDom /\ IwIdle /\ KtIdle /\ PageIdle

NextDomStable ==
  \/ DomTick
  \/ \E structural \in BOOLEAN : DomMutate(structural)
  \/ DomGraceFires \/ DomSettleFires \/ DomTimeoutFires

SpecDomStable == InitDomStable /\ [][NextDomStable]_vars

\* One waitForInteractive() on an element that shows up, or does not, when it likes.
InitInteractive ==
  /\ InitSupervisor /\ InitServerVars("off") /\ InitCliVars("off")
  /\ DispIdle /\ ShotIdle /\ DomIdle /\ InitIw /\ KtIdle /\ PageIdle

NextInteractive == IwTick \/ IwDisplayed \/ IwClickable \/ IwTimeout

SpecInteractive == InitInteractive /\ [][NextInteractive]_vars

\* One killProcessTree() on every tree of MaxProcs processes.
InitKillTree ==
  /\ InitSupervisor /\ InitServerVars("off") /\ InitCliVars("off")
  /\ DispIdle /\ ShotIdle /\ DomIdle /\ IwIdle /\ InitKt /\ PageIdle

NextKillTree ==
  \/ KtDiscover \/ KtSignal \/ KtReturn
  \/ \E q \in Procs : KtExit(q)

SpecKillTree == InitKillTree /\ [][NextKillTree]_vars

\* One waitForPageLoad() call against a page that loads, stalls or fails to answer.
\* Timers fire and every execute settles (the client's request timeout).
InitPageLoad ==
  /\ InitSupervisor /\ InitServerVars("off") /\ InitCliVars("off")
  /\ DispIdle /\ ShotIdle /\ DomIdle /\ IwIdle /\ KtIdle
  /\ InitPl /\ SnapIdle /\ WfIdle /\ XvIdle /\ EvIdle

NextPageLoad ==
  \/ PlTop \/ PlSettle \/ PlRetry \/ PlFinal
  \/ \E ok \in BOOLEAN, d \in 0..MaxExec : PlReadyState(ok, d)
  \/ \E ok \in BOOLEAN, d \in 0..MaxExec : PlBodyLength(ok, d)
  \/ \E rs \in {"loading", "complete"}, len \in BodyLengths : PlPage(rs, len)

SpecPageLoad == InitPageLoad /\ [][NextPageLoad]_vars /\ WF_vars(PlProgram)

\* One snapshot of a document, from the walk of the DOM to the listing.
InitSnapshot ==
  /\ InitSupervisor /\ InitServerVars("off") /\ InitCliVars("off")
  /\ DispIdle /\ ShotIdle /\ DomIdle /\ IwIdle /\ KtIdle
  /\ PlIdle /\ InitSnap /\ WfIdle /\ XvIdle /\ EvIdle

NextSnapshot == SnapExecute \/ SnapToYaml

SpecSnapshot == InitSnapshot /\ [][NextSnapshot]_vars

\* One waitFor() call against an element that is shown and hidden at will. The
\* clock advances and the awaited operations settle.
InitWaitFor ==
  /\ InitSupervisor /\ InitServerVars("off") /\ InitCliVars("off")
  /\ DispIdle /\ ShotIdle /\ DomIdle /\ IwIdle /\ KtIdle
  /\ PlIdle /\ SnapIdle /\ InitWf /\ XvIdle /\ EvIdle

NextWaitFor ==
  \/ \E ok \in BOOLEAN, d \in 0..1 : WfFind(ok, d)
  \/ WfSatisfied \/ WfTick \/ WfPage
  \/ \E early \in BOOLEAN : WfRejected(early)

SpecWaitFor == InitWaitFor /\ [][NextWaitFor]_vars /\ WF_vars(WfProgram)

\* The Xvfb handle under a free caller of startXvfb and stopXvfb, with Xvfb
\* processes that may exit at any time.
InitXvfb ==
  /\ InitSupervisor /\ InitServerVars("off") /\ InitCliVars("off")
  /\ DispIdle /\ ShotIdle /\ DomIdle /\ IwIdle /\ KtIdle
  /\ PlIdle /\ SnapIdle /\ WfIdle /\ InitXv /\ EvIdle

NextXvfb ==
  \/ \E ok \in BOOLEAN : StartXvfb(ok)
  \/ StartXvfbReady \/ StartXvfbTimeout
  \/ StopXvfb
  \/ \E p \in XvIds : XvfbExit(p)

SpecXvfb == InitXvfb /\ [][NextXvfb]_vars

\* One evaluate() call on a script of a few statements.
InitEval ==
  /\ InitSupervisor /\ InitServerVars("off") /\ InitCliVars("off")
  /\ DispIdle /\ ShotIdle /\ DomIdle /\ IwIdle /\ KtIdle
  /\ PlIdle /\ SnapIdle /\ WfIdle /\ XvIdle /\ InitEv

NextEval == EvaluateExpression \/ EvaluateWrapped

SpecEval == InitEval /\ [][NextEval]_vars

\* ---------------------------------------------------------------- claims

C2_AtMostOneSession == Cardinality(sessions) <= 1 /\ Cardinality(LiveBridges) <= 1

\* C3 (as claimed): a disconnect() that had a session to close has left the
\* supervisor Idle (no session handle, no bridge handle) when it ends, whether
\* deleteSession succeeded or failed.
C3_DisconnectLeavesIdle ==
  \A c \in CallIds :
    (calls[c].op = "disconnect" /\ calls[c].target # NULL /\ calls[c].pc \in {"done", "failed"})
      => calls[c].idle

\* C4: the batch runs its commands in list order, one result per command with
\* the command's index and name, each tagged success (with a result) or failure
\* (with an error); when executeBatch is over there are exactly N results, so
\* no failure kept a later command from running.
C4_BatchReportsAll ==
  /\ executed = [k \in 1..Len(executed) |-> k - 1]
  /\ Len(results) = bi
  /\ Len(executed) \in {bi, bi + 1}
  /\ \A k \in 1..Len(results) :
       /\ results[k].index = k - 1
       /\ results[k].cmd = bat[k].cmd
       /\ results[k].success => (results[k].result # "none" /\ results[k].error = "none")
       /\ ~results[k].success => (results[k].result = "none" /\ results[k].error # "none")
  /\ bpc \in {"disconnecting", "end", "aborted"}
       => (Len(results) = Len(bat) /\ Len(executed) = Len(bat))

\* C4 witness: a batch of three is over, its first command failed in the
\* handler, its second failed validation, its third succeeded.
C4_Witness ==
  /\ bpc = "end" /\ Len(bat) = 3 /\ Len(results) = 3
  /\ results[1].error = "Element not found"
  /\ results[2].error = "click requires a selector"
  /\ results[3].success

C8_Step ==
  (hx' # hx /\ hx'.h \in Handlers /\ hx'.sess = NULL)
    => /\ hx'.st = "done"
       /\ hx'.res = "Not connected"
       /\ hx'.log = <<>>
       /\ UNCHANGED <<control, handleVars, osVars, bridgeVars, calls>>

\* C8: a handler called while there is no session ends at once with the
\* "not connected" error, has issued no wait and no session operation, and has
\* changed nothing of the supervisor.
C8_NotConnectedFirst == [][C8_Step]_vars

\* C8 witness: after a session was opened and closed again, a screenshot without
\* autoWait was refused with "not connected".
C8_Witness ==
  /\ hx.h = "screenshot" /\ ~hx.aw /\ hx.st = "done"
  /\ hx.res = "Not connected" /\ hx.log = <<>>
  /\ nSessions > 0 /\ browser = NULL

\* The command lacks a field its handler requires.
LacksField(c) ==
  \/ c.cmd \in {"click", "wait", "type"} /\ c.selector = "absent"
  \/ c.cmd = "type" /\ c.text = "absent"
  \/ c.cmd = "eval" /\ c.script = "absent"

ValidationErrors == {"click requires a selector", "type requires selector and text",
                     "wait requires a selector", "eval requires a script"}

\* C11 (as claimed): in both front-ends a command that lacks a required field is
\* rejected with a validation error before any operation is issued on the session.
C11_NoSessionOperation ==
  \A f \in {"server", "batch"} :
    (dOut[f] # NoRun /\ LacksField(dIn.c))
      => (dOut[f].res \in ValidationErrors /\ dOut[f].ops = <<>>)

\* C11 (amended): in both front-ends a command that lacks a required field is
\* rejected with a validation error and no handler is called, so no handler
\* operation reaches the session; the batch dispatcher issues no session
\* operation at all, the server only those of its window activation.
C11_ValidationBeforeHandler ==
  \A f \in {"server", "batch"} :
    (dOut[f] # NoRun /\ LacksField(dIn.c))
      => /\ dOut[f].res \in ValidationErrors
         /\ dOut[f].call = NoCall
         /\ dOut[f].hops = <<>>
         /\ f = "batch" => dOut[f].ops = <<>>
         /\ f = "server" => dOut[f].ops = ActivateWindow(dIn.conn, dIn.actFail)

\* C11 witness: a type command with a selector and no text was rejected by both
\* front-ends while a session was held; the server had activated the window.
C11_Witness ==
  /\ dIn.c.cmd = "type" /\ dIn.c.selector = "set" /\ dIn.c.text = "absent" /\ dIn.conn
  /\ dOut.batch.res = "type requires selector and text"
  /\ dOut.server.res = "type requires selector and text"
  /\ dOut.server.ops = <<"getWindowHandle", "switchToWindow">>

CommandVariants == {"click", "type", "wait", "eval", "screenshot", "snapshot", "sleep", "status"}

\* C12 (as claimed): for every command variant, status included, the two
\* dispatchers make the same handler call and end the same way.
C12_SameMapping ==
  (dOut.server # NoRun /\ dOut.batch # NoRun /\ dIn.c.cmd \in CommandVariants)
    => /\ dOut.server.call = dOut.batch.call
       /\ dOut.server.res = dOut.batch.res

\* C12 (amended): for every command variant except status the two dispatchers
\* take the same route, make the same handler call with the same autoWait, issue
\* the same handler operations and end the same way; status is a command of the
\* server only.
C12_SameMappingButStatus ==
  (dOut.server # NoRun /\ dOut.batch # NoRun /\ dIn.c.cmd \in CommandVariants \ {"status"})
    => /\ dOut.server.route = dOut.batch.route
       /\ dOut.server.call = dOut.batch.call
       /\ dOut.server.hops = dOut.batch.hops
       /\ dOut.server.res = dOut.batch.res

\* C12 witness: a click that overrides the global autoWait was run by both
\* dispatchers and failed in both on the invisible element.
C12_Witness ==
  /\ dIn.c.cmd = "click" /\ dIn.c.autoWait = "off" /\ dIn.gaw /\ dIn.conn
  /\ dOut.server.res = "Element not visible" /\ dOut.batch.res = "Element not visible"
  /\ dOut.server.call = [h |-> "click", aw |-> FALSE]

\* The dispatched command is a click or a type whose selector matches no element.
MissingElement ==
  /\ dIn.conn
  /\ dIn.c.cmd \in {"click", "type"}
  /\ ~LacksField(dIn.c) /\ dIn.c.selector = "set"
  /\ dIn.fails = MissingFails(dIn.c.cmd, EffectiveAutoWait(dIn.c, dIn.gaw))

\* C13 (as claimed): for a selector that matches no element, and either
\* autoWait setting, click and type fail with "Element not found" and never
\* perform the click or the value change.
C13_ElementNotFound ==
  \A f \in {"server", "batch"} :
    (dOut[f] # NoRun /\ MissingElement)
      => /\ dOut[f].res = "Element not found"
         /\ \A k \in 1..Len(dOut[f].ops) : dOut[f].ops[k] \notin {"click", "setValue"}

C15_ResultPopulated ==
  shot.res = "ok"
    => /\ shot.sized
       /\ shot.path = shot.out
       /\ (shot.base64 # "none") = ~shot.out
       /\ shot.method \in {"x11", "native", "html2canvas", "canvas"}
       /\ shot.data = shot.method
       /\ ~shot.out => shot.base64 = shot.method

\* C15 witness: native capture timed out and html2canvas produced the image that
\* was returned as base64; the native capture has completed since.
C15_Witness ==
  /\ shot.res = "ok" /\ ~shot.out
  /\ shot.method = "html2canvas" /\ shot.base64 = "html2canvas"
  /\ shot.tried = <<"native", "html2canvas">>
  /\ "native" \in shot.lateDone

\* C16 (as claimed): a screenshot whose capture is reported as failed has
\* attempted every strategy of its display, each has failed, and the reported
\* error carries the error message of each attempted strategy.
C16_FailureCarriesAll ==
  shot.res = "All screenshot methods failed"
    => /\ shot.tried = StrategyOrder(shot.xvfb)
       /\ Len(shot.errs) = Len(shot.tried)
       /\ \A k \in 1..Len(shot.tried) : shot.tried[k] \in shot.msg

\* C17: waitForDomStable has returned by its timeout whatever the mutations are,
\* and by initialGrace + settleTime when no structural mutation has occurred
\* after the grace window.
C17_DomStableBounded ==
  /\ dom.doneAt # NONE => dom.doneAt <= dom.timeout
  /\ dom.now > dom.timeout => dom.doneAt # NONE
  /\ (dom.now > InitialGrace + dom.settleTime /\ dom.lastMut <= InitialGrace)
       => (dom.doneAt # NONE /\ dom.doneAt <= InitialGrace + dom.settleTime)

\* C17 witness: structural mutations kept arriving faster than settleTime, and
\* the call returned at its timeout, later than initialGrace + settleTime.
C17_Witness ==
  /\ dom.doneAt = dom.timeout
  /\ dom.timeout > InitialGrace + dom.settleTime
  /\ dom.settleTime > 1
  /\ dom.muts >= dom.timeout

\* C18 (as claimed): waitForInteractive waits for the element to be displayed
\* and then to be clickable, and ends no later than timeout after it started.
C18_SharedDeadline ==
  /\ \A k \in 1..Len(iw.waits) : iw.waits[k] = <<"waitForDisplayed", "waitForClickable">>[k]
  /\ iw.now <= iw.timeout
  /\ iw.pc = "done" => iw.endAt <= iw.timeout

\* C19: killProcessTree signals no process before one of its own descendants and
\* the root last; when it returns it has signalled every process of the tree,
\* also those whose kill failed, and it has not thrown.
C19_BottomUp ==
  /\ \A i, j \in 1..Len(kt.signalled) :
       i < j => ~IsDescendant(kt.par, kt.signalled[j], kt.signalled[i])
  /\ \A i \in 1..Len(kt.signalled) : kt.signalled[i] = 1 => i = MaxProcs
  /\ ~kt.threw
  /\ kt.pc = "returned" => {kt.signalled[i] : i \in 1..Len(kt.signalled)} = Procs

\* C19 witness: a chain of three below the root was signalled deepest first,
\* although the second process had already ended when its turn came.
C19_Witness ==
  /\ kt.pc = "returned"
  /\ kt.par = [q \in Procs |-> q - 1]
  /\ kt.signalled[1] = MaxProcs /\ kt.signalled[MaxProcs] = 1
  /\ 2 \in kt.failed

\* C20: when killProcessTree has returned from a tree that holds a chain of
\* depth three or more, no process of the tree is alive.
C20_NoSurvivors ==
  (kt.pc = "returned" /\ \E q \in Procs : Depth(kt.par, q) >= 3) => kt.alive = {}

\* C20 witness: the call returned from the chain 1 - 2 - 3 - 4, each process
\* killed by its own signal.
C20_Witness ==
  /\ kt.pc = "returned"
  /\ \E q \in Procs : Depth(kt.par, q) >= 3
  /\ kt.failed = {} /\ kt.alive = {}

\* C5 (as claimed): a later request does not operate on the session before the
\* handler of every earlier request has finished.
C5_OneAtATime ==
  \A r1, r2 \in ReqIds : (r1 < r2 /\ reqs[r2].touched) => reqs[r1].pc = "done"

\* C5 (amended): a request that arrived after every earlier request had been
\* answered operates on the session only after every earlier handler has finished.
C5_SequentialClient ==
  \A r1, r2 \in ReqIds :
    (r1 < r2 /\ reqs[r2].seq /\ reqs[r2].touched) => reqs[r1].pc = "done"

\* C5 witness: a click was answered, and the next request, sent after that
\* answer, is operating on the session.
C5_Witness ==
  \E r \in ReqIds :
    /\ r > 1 /\ reqs[r].seq /\ reqs[r].touched
    /\ reqs[r - 1].kind = "post" /\ reqs[r - 1].body.c.cmd = "click"
    /\ reqs[r - 1].shape = "success"

\* C6: the shutdown sequence starts at most once (one close of the listener, one
\* disconnect, one exit), every stop request is acknowledged, and the client's
\* stop against a port without a server reports success.
C6_StopIdempotent ==
  /\ shutdownRuns <= 1 /\ closeCalls <= 1 /\ exits <= 1
  /\ Cardinality({c \in CallIds : calls[c].op = "disconnect"}) <= 1
  /\ \A r \in ReqIds :
       reqs[r].kind = "stop" => (reqs[r].status = 200 /\ reqs[r].shape = "stopping")
  /\ stopClient.outcome = "refused" => stopClient.success

\* C6 witness: a stop arrived while the server was already shutting down and was
\* acknowledged; the process has exited and a client stop found no server.
C6_Witness ==
  /\ \E r \in ReqIds : reqs[r].kind = "stop" /\ reqs[r].noop /\ reqs[r].status = 200
  /\ control = "exited" /\ exits = 1
  /\ stopClient.outcome = "refused"

\* C7: once shutdown has been initiated the process eventually exits.
C7_ShutdownExits == isShuttingDown ~> (control # "alive")

\* C7 witness: the disconnect of the shutdown failed and the process has exited.
C7_Witness ==
  /\ isShuttingDown /\ shutCall # NULL
  /\ calls[shutCall].pc = "failed"
  /\ control = "exited"

C9_Step ==
  /\ (ServerState = "Listening" /\ ServerState' # "Listening")
       => \/ signals' # signals
          \/ \E r \in ReqIds : reqs[r].pc = "new" /\ reqs'[r].kind = "stop"
  /\ \A r \in ReqIds :
       (reqs[r].pc # "done" /\ reqs'[r].pc = "done" /\ reqs'[r].kind = "post"
          /\ reqs'[r].shape # "success")
         => /\ reqs'[r].status \in 400..599
            /\ browser' = browser /\ driverProcess' = driverProcess
            /\ serverInstance' = serverInstance
            /\ ServerState' = ServerState

\* C9: a command that fails is answered with a 4xx/5xx status and changes
\* neither the server's state, its listener nor its session; the server leaves
\* Listening only in a step that handles a stop request or a termination signal.
C9_FailuresKeepServer == [][C9_Step]_vars

\* C9 witness: a command failed with status 500 and the server is Listening with
\* its session.
C9_Witness ==
  /\ ServerState = "Listening" /\ browser # NULL
  /\ \E r \in ReqIds : reqs[r].shape = "failure" /\ reqs[r].status = 500
                         /\ reqs[r].err = "handler error"

\* C10 (as claimed): every answer to a POST execute-command request is
\* {success:true, result} or {success:false, error}.
C10_TwoShapes ==
  \A r \in ReqIds :
    (reqs[r].kind = "post" /\ Answered(r)) => reqs[r].shape \in {"success", "failure"}

\* C21 (as claimed): startDriver skips eviction and launch only when the bridge
\* is already Ready; every call that launches has cleared the stale listeners of
\* both ports first, and a call is told "ready" only once the bridge is.
C21_StartBridge ==
  \A c \in CallIds :
    calls[c].op = "connect" =>
      /\ calls[c].skipped => calls[c].ready
      /\ calls[c].target # NULL => calls[c].cleared

\* The handlers that take an autoWait option.
TakesAutoWait == {"click", "type", "screenshot", "snapshot"}

\* C22: the autoWait a handler is called with is the command's own autoWait field
\* when the command has one, and otherwise the front-end's global default: true
\* for the CLI and batch unless --no-auto-wait is given, false for the server
\* unless --auto-wait is given. (wait, eval and sleep take no autoWait option.)
C22_AutoWaitResolved ==
  \A f \in {"server", "batch"} :
    (f = dIn.front /\ dOut[f] # NoRun /\ dOut[f].call.h \in TakesAutoWait)
      => dOut[f].call.aw =
           CASE dIn.c.autoWait = "on" -> TRUE
             [] dIn.c.autoWait = "off" -> FALSE
             [] OTHER -> IF f = "server" THEN "--auto-wait" \in dIn.flags
                         ELSE "--no-auto-wait" \notin dIn.flags

\* C22 witness: a server started without flags (default off) has called click
\* with autoWait on because the command said so, and a batch started without
\* flags would call it with autoWait on by default.
C22_Witness ==
  /\ dIn.front = "server" /\ dIn.flags = {} /\ dIn.c.cmd = "click" /\ dIn.c.autoWait = "on"
  /\ dOut.server.call = [h |-> "click", aw |-> TRUE]
  /\ ~ServerAutoWait(dIn.flags) /\ CliAutoWait(dIn.flags)

\* A command of the invocation failed: a batch item, or the one-shot handler.
C23_CommandFailed ==
  \/ \E i \in 1..Len(results) : ~results[i].success
  \/ (hx.st = "done" /\ hx.res # "ok")

\* C23 (as claimed): when a CLI invocation whose connect succeeded has ended, its
\* session is closed and nothing of the bridge's process tree is left, and if a
\* command failed the exit status is not zero.
C23_DisconnectedAndNonZero ==
  (bpc \in {"exited", "end"} /\ calls[1].pc = "done")
    => /\ sessions = {}
       /\ \A g \in Gens : procs[g] = {}
       /\ C23_CommandFailed => ExitCode # 0

C24_Step ==
  readyLines' # readyLines
    => /\ readyLines = 0 /\ readyLines' = 1
       /\ srvPc = "keepalive" /\ calls[1].op = "connect" /\ calls[1].pc = "done"
       /\ serverInstance' = "listening"

\* C24: the ready line is written at most once, in the step in which the listener
\* binds, which comes after connect returned and the keep-alive injection was
\* awaited; a server that is running has written it, and a server whose connect
\* or listen failed has written none.
C24_ReadyLineOnce ==
  /\ [](srvPc = "running" => readyLines = 1)
  /\ [](srvPc = "failed" => readyLines = 0)
  /\ [][C24_Step]_vars

\* C24 witness: the server is listening with its session, one ready line written.
C24_Witness ==
  /\ srvPc = "running" /\ serverInstance = "listening" /\ browser # NULL
  /\ readyLines = 1 /\ calls[1].pc = "done"

C25_Step ==
  /\ (pl.pc = "top" /\ pl'.pc = "readyState") => pl.now - pl.start < pl.timeout
  /\ (pl.pc # "bodyLength" /\ pl'.pc = "bodyLength")
       => pl.pc = "settle" /\ pl'.now = pl.wake
  /\ (pl.pc # "settle" /\ pl'.pc = "settle") => pl.readyState = "complete"
  /\ (pl.pc # "returned" /\ pl'.pc = "returned")
       => \/ pl'.detected /\ pl.pc = "bodyLength" /\ pl.bodyLength > ContentThreshold
          \/ ~pl'.detected /\ pl.pc = "final"
               /\ pl'.now - pl.start >= pl.timeout + FinalDelay

\* C25: waitForPageLoad never throws, whatever the polls do; it returns when a
\* poll found the document complete and, after the settle wait, found more markup
\* than the threshold; a poll is only begun before waitTimeout has passed, and
\* otherwise it returns after the final wait that follows the loop; it always
\* returns.
C25_PageLoadTerminates ==
  /\ [](pl.pc # "failed")
  /\ [][C25_Step]_vars
  /\ <>(pl.pc = "returned")

\* C25 witness: a poll was rejected, the page never got ready, and the call
\* returned after waitTimeout and the final wait.
C25_Witness ==
  /\ pl.pc = "returned" /\ ~pl.detected /\ pl.errors = 1
  /\ pl.timeout > 0 /\ pl.now >= pl.timeout + FinalDelay

\* The element of the document at place src.
RECURSIVE ElemAt(_, _)
ElemAt(el, src) == IF src = <<>> THEN el ELSE ElemAt(el.kids[Head(src)], Tail(src))

\* The places of the elements of a document.
RECURSIVE Places(_)
Places(el) ==
  {<<>>} \cup UNION {{<<i>> \o p : p \in Places(el.kids[i])} : i \in 1..Len(el.kids)}

\* Line j of the listing is the line of a child of line i's element.
C26_ChildLine(i, j) ==
  /\ Len(snap.yaml[j].src) = Len(snap.yaml[i].src) + 1
  /\ SubSeq(snap.yaml[j].src, 1, Len(snap.yaml[i].src)) = snap.yaml[i].src

\* C26: no line of the listing stands for a script or style element, and every
\* line stands for an element that has an accessible name, or direct text, or a
\* child with a line of its own, or is an img, input, textarea or select.
C26_Pruned ==
  snap.pc = "done" =>
    \A i \in 1..Len(snap.yaml) :
      LET el == ElemAt(snap.dom, snap.yaml[i].src)
      IN /\ el.tag \notin {"script", "style"}
         /\ \/ snap.yaml[i].name # ""
            \/ el.text # ""
            \/ el.tag \in {"img", "input", "textarea", "select"}
            \/ \E j \in 1..Len(snap.yaml) : C26_ChildLine(i, j)

\* C26 witness: a document with a container whose children (an empty div, a
\* script) were all pruned, so that it was pruned itself, beside a div with text
\* that is listed.
C26_Witness ==
  /\ snap.pc = "done"
  /\ Len(snap.dom.kids) = 2
  /\ snap.dom.kids[1].tag = "div" /\ Len(snap.dom.kids[1].kids) = 2
  /\ snap.dom.kids[1].kids[1] = El("div", NoAttrs, FALSE, "", <<>>)
  /\ snap.dom.kids[1].kids[2].tag = "script"
  /\ snap.dom.kids[2].text = "t"
  /\ [i \in 1..Len(snap.yaml) |-> snap.yaml[i].src] = <<<<>>, <<2>>>>

\* The markers of kind k on line ln of the listing.
C27_Markers(ln, k) == {ln.markers[m].v : m \in {n \in 1..Len(ln.markers) : ln.markers[n].k = k}}

\* C27 (as claimed): a child's line is indented two spaces deeper than its
\* parent's; a line carries #id exactly when its element has an id, its first two
\* classes at most, its type, [disabled] exactly when the element carries a
\* disabled attribute and [checked] exactly when it carries a checked attribute.
C27_Listing ==
  snap.pc = "done" =>
    \A i \in 1..Len(snap.yaml) :
      LET ln == snap.yaml[i]
          el == ElemAt(snap.dom, ln.src)
      IN /\ \A j \in 1..Len(snap.yaml) :
              C26_ChildLine(i, j) => snap.yaml[j].spaces = ln.spaces + 2
         /\ C27_Markers(ln, "#") = IF TruthyAttr(el, "id") THEN {el.attrs["id"]} ELSE {}
         /\ C27_Markers(ln, ".") =
              IF TruthyAttr(el, "class") THEN {FirstTwo(el.attrs["class"])} ELSE {}
         /\ \A v \in C27_Markers(ln, ".") : Len(v) <= 2
         /\ C27_Markers(ln, "[type=]") =
              IF TruthyAttr(el, "type") THEN {el.attrs["type"]} ELSE {}
         /\ HasAttr(el, "disabled") <=> C27_Markers(ln, "[disabled]") # {}
         /\ HasAttr(el, "checked") <=> C27_Markers(ln, "[checked]") # {}

C29_Step ==
  /\ (wf.pc # "done" /\ wf'.pc = "done")
       => /\ wf'.found = ~wf.gone
          /\ wf.visible = ~wf.gone
          /\ wf'.elapsed <= wf.timeout + MaxLag
  /\ (wf.pc = "waiting" /\ wf'.pc = "failed")
       => /\ wf'.err = IF wf.gone THEN "Element still visible after"
                      ELSE "Element not found after"
          /\ wf'.elapsed = wf.now - wf.start
  /\ wf.pc \in {"done", "failed"} => wf' = wf
  /\ wf'.issued <= 1

\* C29: waitFor returns found = true when the element is seen shown (gone not
\* asked) and found = false when it is seen not shown (gone asked), within the
\* timeout; a wait that is rejected fails with "not found after" or "still
\* visible after" and the time elapsed since waitFor began; the call always ends,
\* and its end is final: the wait is issued once and nothing follows.
C29_WaitTerminal ==
  /\ [][C29_Step]_vars
  /\ <>(wf.pc \in {"done", "failed"})

\* C29 witness: a wait for the element to go away ran out while it stayed shown.
C29_Witness ==
  /\ wf.pc = "failed" /\ wf.gone /\ wf.visible /\ wf.timeout > 0
  /\ wf.err = "Element still visible after" /\ wf.elapsed >= wf.timeout

\* C30: however often the bridge is started and stopped, at most one exit hook is
\* registered, and exactly one from the first start on: the start that finds the
\* flag unset registers it, every later start leaves the hooks as they are.
C30_OneExitHook ==
  /\ exitHooks = (IF \E g \in Gens : shellPc[g] # "none" THEN 1 ELSE 0)
  /\ exitHandlerRegistered <=> exitHooks = 1

\* C30 witness: the bridge was started, stopped and started again, and one hook
\* is registered.
C30_Witness ==
  /\ \A g \in Gens : shellPc[g] # "none"
  /\ driverProcess = MaxSpawn
  /\ \E c \in CallIds : calls[c].op = "disconnect" /\ calls[c].pc = "done"
  /\ exitHooks = 1

\* C31: whatever startXvfb and stopXvfb calls were made, at most one Xvfb
\* process spawned by this process is running.
C31_AtMostOneXvfb ==
  xv.pc # "off" => Cardinality({p \in XvIds : xv.st[p] = "alive"}) <= 1

\* C39: whenever getXvfbDisplay() returns a display number (of a display no
\* other X server holds), the Xvfb process this process started on that
\* display is still running.
C39_DisplayOnlyWhileAlive ==
  (xv.pc # "off" /\ GetXvfbDisplay # NULL /\ GetXvfbDisplay \notin xv.foreign)
    => \E p \in XvIds : xv.st[p] = "alive" /\ xv.on[p] = GetXvfbDisplay

\* The operations of a finished or running click, in the order the spec gives.
ClickOrder(aw) ==
  IF aw THEN <<"$", "waitForDisplayed", "waitForClickable",
               "$", "isExisting", "isDisplayed", "click", "executeAsync">>
  ELSE <<"$", "isExisting", "isDisplayed", "click">>

\* C32: the operations a click handler has issued are an initial part of:
\* interactive wait (with autoWait only), locate, existence check, visibility
\* check, click, DOM-stable wait (with autoWait only); a click that failed on
\* a missing or hidden element has sent no click action, and without autoWait
\* no wait was issued.
C32_ClickOrder ==
  hx.h = "click" =>
    /\ Len(hx.log) <= Len(ClickOrder(hx.aw))
    /\ hx.log = SubSeq(ClickOrder(hx.aw), 1, Len(hx.log))
    /\ hx.res \in {"Element not found", "Element not visible"}
         => \A i \in 1..Len(hx.log) : hx.log[i] # "click"
    /\ ~hx.aw => \A i \in 1..Len(hx.log) :
                   hx.log[i] \notin {"waitForDisplayed", "waitForClickable", "executeAsync"}
    /\ (hx.st = "done" /\ hx.res = "ok") => hx.log = ClickOrder(hx.aw)

\* A click with autoWait ran to its end: both waits, both checks, the click.
C32_Witness ==
  /\ hx.h = "click" /\ hx.aw /\ hx.st = "done" /\ hx.res = "ok"
  /\ Len(hx.log) = 8 /\ hx.log[7] = "click"

\* C33: a step of a command handler (its call, the settling of one of its
\* operations, its return or its throw) leaves the session handle and the
\* bridge process handle as they were.
C33_Step == hx' # hx => (browser' = browser /\ driverProcess' = driverProcess)

C33_DispatchKeepsHandles == [][C33_Step]_vars

\* A handler failed on one of its operations while session and bridge were held.
C33_Witness ==
  /\ hx.st = "done" /\ hx.res \notin {"ok", "none", "Not connected"}
  /\ browser # NULL /\ driverProcess # NULL /\ hx.sess = browser

\* Every element on the way from the body to place p is one the walk enters.
C34_Entered(p) ==
  \A k \in 0..Len(p) :
    LET el == ElemAt(snap.dom, SubSeq(p, 1, k))
    IN el.tag \notin {"script", "style", "noscript"} /\ ~el.hidden

\* C34: once the walk of a document has returned, no line of the listing stands
\* for an element more than 10 levels below the body and no line is indented
\* by more than 20 spaces; the cap removes nothing else: an element with text
\* at most 10 levels down, on a path the walk enters, has its line.
C34_DepthCapped ==
  snap.pc = "done" =>
    /\ \A i \in 1..Len(snap.yaml) :
         Len(snap.yaml[i].src) <= 10 /\ snap.yaml[i].spaces <= 20
    /\ \A p \in Places(snap.dom) :
         (Len(p) <= 10 /\ ElemAt(snap.dom, p).text # "" /\ C34_Entered(p))
           => \E i \in 1..Len(snap.yaml) : snap.yaml[i].src = p

\* A document nested 12 deep, every element with text, was listed down to
\* level 10: 11 lines.
C34_Witness ==
  /\ snap.pc = "done"
  /\ snap.dom = Chain(12, "t")
  /\ Len(snap.yaml) = 11
  /\ Len(snap.yaml[11].src) = 10

\* C35: once a connect has failed because the spawn of the wrapper reported an
\* error, the bridge handle no longer names the failed launch.
C35_FailedLaunchForgotten ==
  \A c \in CallIds :
    (/\ calls[c].op = "connect" /\ calls[c].pc = "failed"
     /\ calls[c].target # NULL /\ shellPc[calls[c].target] = "spawnerr")
      => driverProcess # calls[c].target

\* C36: done() is called at most once in a waitForDomStable call, and from its
\* first call on the observer is disconnected and no timer of the call (grace,
\* settle, absolute timeout) is still set.
C36_SignalsOnce ==
  /\ dom.doneCalls <= 1
  /\ dom.doneCalls >= 1
       => /\ ~dom.observing
          /\ ~dom.graceTimer /\ ~dom.timeoutTimer /\ dom.settleTimer = NONE

\* C37: in one evaluate() call no statement of the script is run more than
\* once in the page.
C37_ExecutedOnce ==
  ev.pc # "off" => \A i \in 1..Len(ev.script) : ev.runs[i] <= 1

\* The script is a run of statements that do not throw and of which only the
\* last is a return.
C38_EndsInReturn(script) ==
  /\ Len(script) >= 2
  /\ script[Len(script)].kind = "return"
  /\ \A i \in 1..Len(script) : ~script[i].throws
  /\ \A i \in 1..(Len(script) - 1) : script[i].kind # "return"

\* C38: for a script of several statements that ends in its own return,
\* evaluate returns the value of that return and has run every statement.
C38_FinalReturn ==
  (ev.pc \in {"done", "failed"} /\ C38_EndsInReturn(ev.script))
    => /\ ev.pc = "done"
       /\ ev.result = [k |-> "value", v |-> Len(ev.script)]
       /\ \A i \in 1..Len(ev.script) : ev.runs[i] >= 1

\* executeCommand has been entered for request r and has not settled.
C40_InFlight(r) == reqs[r].pc \in {"activating", "running"}

\* C40: a command request that is in flight while no shutdown has been
\* initiated is no longer in flight (it was answered) once the process has
\* exited.
C40_AnsweredBeforeExit ==
  \A r \in ReqIds :
    []((C40_InFlight(r) /\ ~isShuttingDown) => [](control # "alive" => ~C40_InFlight(r)))

====
